---- MODULE Spec2Model ----
(***************************************************************************)
(* Model of the routing core and transport primitives of the OpenOracle    *)
(* python SDK (packages/python-sdk/openoracle).                            *)
(*                                                                         *)
(*   utils/retry.py        CircuitBreaker, async_retry, RateLimiter        *)
(*   core/client.py        OpenOracleClient._request                       *)
(*   ai/routing_engine.py  RoutingEngine                                   *)
(*   ai/question_analyzer.py, ai/enhancement_service.py                    *)
(*                                                                         *)
(* Time is a discrete clock `now` (one unit = one second).  Optional       *)
(* python values (None or a value) are sets with at most one element.      *)
(***************************************************************************)
EXTENDS Integers, Sequences, FiniteSets, TLC

VARIABLES
    now,        \* wall clock, time.time() / datetime.utcnow()
    cb,         \* the CircuitBreaker object
    cbPc,       \* per task: position inside CircuitBreaker._execute_async
    cbEvt,      \* the last call or return that went through the breaker
    cbRun,      \* consecutive failed calls completed most recently
    cbUp,       \* number of invocations of the wrapped function
    rt,         \* one run of async_retry: its config, loop position and log
    http,       \* the OpenOracleClient object
    httpPc,     \* per task: position inside OpenOracleClient._request
    httpRes,    \* per task: how its last request ended
    httpEvt,    \* the last entry into _request or response handled
    httpSent,   \* number of HTTP requests put on the wire
    httpDeadline, \* the deadline of the last 429 that carried Retry-After
    rl,         \* the RateLimiter object
    rlLock,     \* RateLimiter._lock: the task holding it, if any
    rlPc,       \* per task: position inside RateLimiter.wait_for_tokens
    rlOut,      \* tokens handed out by acquire calls that returned True
    req,        \* the routing request a caller makes, and what building it raised
    reqPc,      \* how far that call has come
    routed,     \* what route_with_ai_enhancement returned
    merged,     \* what _apply_enhancements returned
    mem,        \* the MemoryCache object
    memOps,     \* number of cache operations made
    memEvt,     \* the last cache operation and what it returned
    memRecent,  \* the keys held, least recently returned or written first
    memDeadline, \* per key held: until when the set that wrote it may be read
    file,       \* the FileCache object and the files of its cache_dir
    filePc,     \* per client: position inside FileCache.get or set
    fileEvt,    \* the last get of the file cache that returned
    fileWrites, \* per set: whether it is complete, and until when it may be read
    fileOps,    \* number of file cache calls made
    registry,   \* OracleAdapterRegistry._adapters: the adapters by name
    adPc,       \* per task: its position inside query or query_best_adapter
    adRes,      \* per task: what its last call returned or raised
    adEvt,      \* the last adapter query that ended, and how
    adOk,       \* per adapter: the queries that returned without error
    adCalls,    \* number of calls made
    router,     \* LLMRouter.providers: the providers configured, in the order added
    llmCall,    \* the last call of the LLM integration: its arguments and what came back
    agg,        \* the last get_aggregated_data call: its arguments and what came back
    built,      \* the last contract-bound schema object a caller built, or the error raised
    cfg,        \* the OracleConfig object a caller built and the issues validate returned
    arl,        \* the AsyncRateLimiter object
    arlLock,    \* AsyncRateLimiter.lock: the task holding it, if any
    arlPc,      \* per task: position inside AsyncRateLimiter.acquire
    arlGranted, \* the times at which acquire returned to a caller, in order
    arlAcquires \* how many times acquire was called

cbVars == <<cb, cbPc, cbEvt, cbRun, cbUp>>
rtVars == <<rt>>
httpVars == <<http, httpPc, httpRes, httpEvt, httpSent, httpDeadline>>
rlVars == <<rl, rlLock, rlPc, rlOut>>
routeVars == <<req, reqPc, routed, merged>>
memVars == <<mem, memOps, memEvt, memRecent, memDeadline>>
fileVars == <<file, filePc, fileEvt, fileWrites, fileOps>>
adVars == <<registry, adPc, adRes, adEvt, adOk, adCalls>>
llmVars == <<router, llmCall>>
aggVars == <<agg>>
schemaVars == <<built>>
configVars == <<cfg>>
arlVars == <<arl, arlLock, arlPc, arlGranted, arlAcquires>>
vars == <<now, cb, cbPc, cbEvt, cbRun, cbUp, rt,
          http, httpPc, httpRes, httpEvt, httpSent, httpDeadline,
          rl, rlLock, rlPc, rlOut, req, reqPc, routed, merged,
          mem, memOps, memEvt, memRecent, memDeadline,
          file, filePc, fileEvt, fileWrites, fileOps,
          registry, adPc, adRes, adEvt, adOk, adCalls,
          router, llmCall,
          agg,
          built,
          cfg,
          arl, arlLock, arlPc, arlGranted, arlAcquires>>

----------------------------------------------------------------------------
(* Bounds of the model *)

MaxTime == 4
NumTasks == 2
MaxThreshold == 2
MaxRecovery == 2
MaxCalls == 5
MaxAttempts == 3
MaxBaseDelay == 2
MaxSends == 4
MaxRetryAfter == 2
MaxHttpRetries == 2
MaxTokens == 2
MaxRate == 1
MaxCacheOps == 4
MaxFileOps == 3
MaxQueries == 2
MaxAdapterTime == 1
MaxLimit == 2
MaxWindow == 2
MaxAcquires == 3
MaxCacheTime == 2
MaxTtl == 1
MaxSize == 2

\* time.time() at the start of a run.
Epoch == 1

Tasks == 1..NumTasks

Opt(S) == {{}} \cup {{x} : x \in S}
Val(o) == CHOOSE x \in o : TRUE

Min(a, b) == IF a <= b THEN a ELSE b
Max(a, b) == IF a >= b THEN a ELSE b

----------------------------------------------------------------------------
(* The clock *)

Tick ==
    /\ now < MaxTime
    /\ now' = now + 1
    /\ UNCHANGED <<cbVars, rtVars, httpVars, rlVars, routeVars, memVars, fileVars, adVars, llmVars, aggVars, schemaVars, configVars, arlVars>>

----------------------------------------------------------------------------
(* utils/retry.py: CircuitBreaker *)

CircuitBreaker(failure_threshold, recovery_timeout) ==
    [ failure_threshold |-> failure_threshold,
      recovery_timeout  |-> recovery_timeout,
      failure_count     |-> 0,
      last_failure_time |-> {},
      state             |-> "closed" ]

should_attempt_reset(self, t) ==
    /\ self.last_failure_time # {}
    /\ t - Val(self.last_failure_time) >= self.recovery_timeout

on_success_keeps_count(self) ==
    [self EXCEPT !.state = "closed"]

on_success(self) ==
    [self EXCEPT !.failure_count = 0, !.state = "closed"]

on_failure_threshold_off_by_one(self, t) ==
    LET counted == [self EXCEPT !.failure_count = @ + 1,
                                !.last_failure_time = {t}]
    IN  IF counted.failure_count > counted.failure_threshold
        THEN [counted EXCEPT !.state = "open"]
        ELSE counted

on_failure(self, t) ==
    LET counted == [self EXCEPT !.failure_count = @ + 1,
                                !.last_failure_time = {t}]
    IN  IF counted.failure_count >= counted.failure_threshold
        THEN [counted EXCEPT !.state = "open"]
        ELSE counted

\* The entry of _execute_async, up to the await of the wrapped function:
\* the breaker afterwards, and whether the wrapped function is invoked.
execute_entry(self, t) ==
    IF self.state = "open"
    THEN IF should_attempt_reset(self, t)
         THEN [breaker |-> [self EXCEPT !.state = "half-open"], invoke |-> TRUE]
         ELSE [breaker |-> self, invoke |-> FALSE]
    ELSE [breaker |-> self, invoke |-> TRUE]

\* After the await: the outcome of the wrapped function.  "other" is an
\* exception that is not an instance of expected_exception (with the default,
\* a BaseException such as asyncio.CancelledError): neither handler runs.
execute_exit(self, outcome, t) ==
    CASE outcome = "success" -> on_success(self)
      [] outcome = "failure" -> on_failure(self, t)
      [] OTHER               -> self

Outcomes == {"success", "failure", "other"}

NoEvt ==
    [ kind |-> "none", task |-> 0, pre |-> "closed", elapsed |-> FALSE,
      invoked |-> FALSE, outcome |-> "none", probe |-> FALSE, upBefore |-> 0 ]

CBInit ==
    /\ \E ft \in 1..MaxThreshold, rto \in 1..MaxRecovery :
           cb = CircuitBreaker(ft, rto)
    /\ cbPc = [t \in Tasks |-> [at |-> "idle", probe |-> FALSE]]
    /\ cbEvt = NoEvt
    /\ cbRun = 0
    /\ cbUp = 0

CBIdle ==
    /\ cb = CircuitBreaker(1, 1)
    /\ cbPc = [t \in Tasks |-> [at |-> "idle", probe |-> FALSE]]
    /\ cbEvt = NoEvt
    /\ cbRun = 0
    /\ cbUp = 0

\* A task calls the wrapped function through the breaker.
CBCall(t) ==
    /\ cbPc[t].at = "idle"
    /\ cbUp < MaxCalls
    /\ LET e == execute_entry(cb, now)
           isProbe == cb.state = "open" /\ e.breaker.state = "half-open"
       IN  /\ cb' = e.breaker
           /\ cbPc' = [cbPc EXCEPT ![t] =
                  IF e.invoke THEN [at |-> "inflight", probe |-> isProbe]
                              ELSE [at |-> "idle", probe |-> FALSE]]
           /\ cbUp' = IF e.invoke THEN cbUp + 1 ELSE cbUp
           /\ cbEvt' = [ kind |-> "call", task |-> t, pre |-> cb.state,
                         elapsed |-> \E lf \in cb.last_failure_time :
                                         now - lf >= cb.recovery_timeout,
                         invoked |-> e.invoke, outcome |-> "none",
                         probe |-> isProbe, upBefore |-> cbUp ]
    /\ UNCHANGED <<now, cbRun, rtVars, httpVars, rlVars, routeVars, memVars, fileVars, adVars, llmVars, aggVars, schemaVars, configVars, arlVars>>

\* The wrapped function of an in-flight call returns or raises.
CBReturn(t, outcome) ==
    /\ cbPc[t].at = "inflight"
    /\ cb' = execute_exit(cb, outcome, now)
    /\ cbPc' = [cbPc EXCEPT ![t] = [at |-> "idle", probe |-> FALSE]]
    /\ cbRun' = IF outcome = "failure"
                THEN Min(cbRun + 1, cb.failure_threshold)
                ELSE 0
    /\ cbEvt' = [ kind |-> "return", task |-> t, pre |-> cb.state,
                  elapsed |-> FALSE, invoked |-> TRUE, outcome |-> outcome,
                  probe |-> cbPc[t].probe, upBefore |-> cbUp ]
    /\ UNCHANGED <<now, cbUp, rtVars, httpVars, rlVars, routeVars, memVars, fileVars, adVars, llmVars, aggVars, schemaVars, configVars, arlVars>>

NextCB ==
    \/ Tick
    \/ \E t \in Tasks : CBCall(t)
    \/ \E t \in Tasks, o \in Outcomes : CBReturn(t, o)

----------------------------------------------------------------------------
(* Claims about the circuit breaker *)

\* C4: after failure_threshold consecutive failed calls the breaker is open,
\* and a call made while it is open, before recovery_timeout has elapsed since
\* the last failure, fails at once: the wrapped function is not invoked.
C4_OpenAfterThresholdFailsFast ==
    /\ ( /\ cbEvt.kind = "return"
         /\ cbEvt.outcome = "failure"
         /\ cbRun >= cb.failure_threshold )
       => cb.state = "open"
    /\ ( /\ cbEvt.kind = "call"
         /\ cbEvt.pre = "open"
         /\ ~cbEvt.elapsed )
       => /\ ~cbEvt.invoked
          /\ cbUp = cbEvt.upBefore
          /\ cbPc[cbEvt.task].at = "idle"
          /\ cb.state = "open"

C4_Witness ==
    /\ cbEvt.kind = "call"
    /\ cbEvt.pre = "open"
    /\ ~cbEvt.elapsed
    /\ ~cbEvt.invoked
    /\ cbRun >= cb.failure_threshold
    /\ cb.failure_threshold >= 2

CBCycle ==
    { <<"closed", "open">>, <<"open", "half-open">>,
      <<"half-open", "closed">>, <<"half-open", "open">> }

C6_TransitionsFollowCycle ==
    [][cb'.state # cb.state => <<cb.state, cb'.state>> \in CBCycle]_vars

----------------------------------------------------------------------------
(* utils/retry.py: RetryConfig, calculate_delay, should_retry, async_retry *)

\* Exception classes and their base classes (core/exceptions.py and builtins).
ExcBases ==
    [ Exception       |-> {"Exception"},
      OracleError     |-> {"OracleError", "Exception"},
      NetworkError    |-> {"NetworkError", "OracleError", "Exception"},
      RateLimitError  |-> {"RateLimitError", "OracleError", "Exception"},
      TimeoutError    |-> {"TimeoutError", "OracleError", "Exception"},
      ProviderError   |-> {"ProviderError", "OracleError", "Exception"},
      ValidationError |-> {"ValidationError", "OracleError", "Exception"},
      ConnectionError |-> {"ConnectionError", "Exception"},
      ValueError      |-> {"ValueError", "Exception"} ]

\* The errors the retried function raises in the model.
RaisedKinds ==
    {"NetworkError", "RateLimitError", "ValidationError", "ConnectionError",
     "ValueError"}

isinstance(exception, exc_type) == exc_type \in ExcBases[exception]

RECURSIVE Pow(_, _)
Pow(b, n) == IF n = 0 THEN 1 ELSE b * Pow(b, n - 1)

RetryConfig(max_attempts, base_delay, max_delay, backoff_factor, jitter, retriable_exceptions) ==
    [ max_attempts         |-> max_attempts,
      base_delay           |-> base_delay,
      max_delay            |-> max_delay,
      backoff_factor       |-> backoff_factor,
      jitter               |-> jitter,
      retriable_exceptions |-> IF retriable_exceptions = {}
                               THEN {"Exception"}
                               ELSE retriable_exceptions ]

\* The retriable sets of the module's own configurations: the default,
\* network_retry, provider_retry, api_retry, and an empty list.
RetriableSets ==
    { {},
      {"NetworkError", "TimeoutError", "ConnectionError"},
      {"ProviderError", "RateLimitError"},
      {"NetworkError", "RateLimitError"} }

\* The delays calculate_delay may return for an attempt: one value without
\* jitter, and with jitter any value from half the delay up to the delay
\* (delay * (0.5 + random() * 0.5)), here in whole units.
calculate_delay_without_backoff(attempt, config) ==
    LET delay == Min(config.base_delay, config.max_delay)
    IN  IF config.jitter
        THEN { d \in 0..delay : 2 * d >= delay }
        ELSE { delay }

calculate_delay(attempt, config) ==
    LET delay == Min(config.base_delay * Pow(config.backoff_factor, attempt - 1),
                     config.max_delay)
    IN  IF config.jitter
        THEN { d \in 0..delay : 2 * d >= delay }
        ELSE { delay }

should_retry_everything(exception, config) == TRUE

should_retry(exception, config) ==
    \E exc_type \in config.retriable_exceptions : isinstance(exception, exc_type)

RetryRun(config) ==
    [ config  |-> config,
      at      |-> "start",     \* start, calling, sleeping, returned, raised
      attempt |-> 0,
      calls   |-> 0,           \* invocations of func
      errs    |-> << >>,       \* what each failed invocation raised
      sleeps  |-> 0,           \* calls of asyncio.sleep
      slept   |-> 0,           \* their total duration
      last_exception |-> {},
      raised  |-> {} ]         \* what async_retry raised to its caller

\* The backoff factors of the module's configurations: 2.0 is the default,
\* used by network_retry and api_retry, and 3.0 that of provider_retry.
BackoffFactors == {2, 3}

RetryInit ==
    \E n \in 0..MaxAttempts, b \in 1..MaxBaseDelay, f \in BackoffFactors,
       j \in BOOLEAN, rs \in RetriableSets :
        rt = RetryRun(RetryConfig(n, b, 4 * MaxBaseDelay, f, j, rs))

RetryIdle ==
    rt = RetryRun(RetryConfig(0, 1, 1, 1, FALSE, {}))

\* for attempt in range(1, max_attempts + 1): the loop is entered, or, with
\* max_attempts = 0, skipped and RetryError raised.
RetryStart ==
    /\ rt.at = "start"
    /\ rt' = IF rt.config.max_attempts >= 1
             THEN [rt EXCEPT !.at = "calling", !.attempt = 1]
             ELSE [rt EXCEPT !.at = "raised", !.raised = {"RetryError"}]
    /\ UNCHANGED <<now, cbVars, httpVars, rlVars, routeVars, memVars, fileVars, adVars, llmVars, aggVars, schemaVars, configVars, arlVars>>

\* One pass of the loop body: func is awaited and returns, or raises e.
RetryAttempt(outcome) ==
    /\ rt.at = "calling"
    /\ \/ /\ outcome = "ok"
          /\ rt' = [rt EXCEPT !.at = "returned", !.calls = @ + 1]
       \/ /\ outcome \in RaisedKinds
          /\ LET r == [rt EXCEPT !.calls = @ + 1,
                                 !.errs = Append(@, outcome),
                                 !.last_exception = {outcome}]
             IN  IF ~should_retry(outcome, rt.config)
                 THEN rt' = [r EXCEPT !.at = "raised", !.raised = {outcome}]
                 ELSE IF rt.attempt = rt.config.max_attempts
                 THEN rt' = [r EXCEPT !.at = "raised", !.raised = {"RetryError"}]
                 ELSE \E delay \in calculate_delay(rt.attempt, rt.config) :
                          rt' = [r EXCEPT !.at = "sleeping",
                                          !.sleeps = @ + 1,
                                          !.slept = @ + delay]
    /\ UNCHANGED <<now, cbVars, httpVars, rlVars, routeVars, memVars, fileVars, adVars, llmVars, aggVars, schemaVars, configVars, arlVars>>

\* asyncio.sleep(delay) returns and the loop goes to the next attempt.
RetryWake ==
    /\ rt.at = "sleeping"
    /\ rt' = [rt EXCEPT !.at = "calling", !.attempt = @ + 1]
    /\ UNCHANGED <<now, cbVars, httpVars, rlVars, routeVars, memVars, fileVars, adVars, llmVars, aggVars, schemaVars, configVars, arlVars>>

NextRetry ==
    \/ RetryStart
    \/ \E o \in {"ok"} \cup RaisedKinds : RetryAttempt(o)
    \/ RetryWake

\* C7: as soon as an attempt raises an error that is not an instance of a
\* retriable class, async_retry makes no further attempt, does not sleep
\* again, and raises that same error to its caller.
NotRetriable(e) ==
    \A c \in rt.config.retriable_exceptions : c \notin ExcBases[e]

C7_NonRetriableSurfacesAtOnce ==
    \A i \in 1..Len(rt.errs) :
        NotRetriable(rt.errs[i])
            => /\ i = Len(rt.errs)
               /\ rt.at = "raised"
               /\ rt.raised = {rt.errs[i]}
               /\ rt.calls = i
               /\ rt.sleeps = i - 1

C7_Witness ==
    /\ Len(rt.errs) >= 2
    /\ NotRetriable(rt.errs[Len(rt.errs)])
    /\ rt.at = "raised"
    /\ rt.attempt < rt.config.max_attempts

\* A run in which every attempt failed with a retriable error, under a
\* configuration without jitter whose delays stay below max_delay.
ExhaustedWithoutJitter ==
    /\ rt.at = "raised"
    /\ rt.raised = {"RetryError"}
    /\ rt.config.max_attempts >= 1
    /\ ~rt.config.jitter
    /\ \A attempt \in 1..rt.config.max_attempts :
          rt.config.base_delay * Pow(rt.config.backoff_factor, attempt - 1)
              <= rt.config.max_delay

\* C11 as stated: when all n attempts fail with a retriable error, jitter is
\* off and max_delay is not reached, the total time slept is
\* b * (f^n - 1) / (f - 1).
C11_TotalSleepIsGeometricSumOfN ==
    ExhaustedWithoutJitter
        => rt.slept * (rt.config.backoff_factor - 1)
              = rt.config.base_delay
                  * (Pow(rt.config.backoff_factor, rt.config.max_attempts) - 1)

\* C11 amended: async_retry sleeps after each failed attempt but the last,
\* so under the same conditions the total time slept is
\* b * (f^(n-1) - 1) / (f - 1), over n - 1 sleeps.
C11_TotalSleepIsGeometricSumOfNMinusOne ==
    ExhaustedWithoutJitter
        => /\ rt.sleeps = rt.config.max_attempts - 1
           /\ rt.slept * (rt.config.backoff_factor - 1)
                 = rt.config.base_delay
                     * (Pow(rt.config.backoff_factor, rt.config.max_attempts - 1) - 1)

C11_Witness ==
    /\ ExhaustedWithoutJitter
    /\ rt.config.max_attempts >= 3
    /\ rt.calls = rt.config.max_attempts
    /\ rt.slept > rt.config.base_delay * (rt.config.max_attempts - 1)

----------------------------------------------------------------------------
(* core/client.py: OpenOracleClient._request *)

\* What the wire gives back for one request: a status line (with the
\* Retry-After header, if any), a timeout, or a connection error.
Statuses == {200, 401, 404, 422, 429, 500}

Responses ==
    { [kind |-> "status", status |-> st, retry_after |-> {}] : st \in Statuses }
    \cup { [kind |-> "status", status |-> 429, retry_after |-> {ra}] :
              ra \in 0..MaxRetryAfter }
    \cup { [kind |-> k, status |-> 0, retry_after |-> {}] :
              k \in {"timeout", "client_error"} }

OpenOracleClient(retry_attempts) ==
    [ retry_attempts   |-> retry_attempts,
      rate_limit_reset |-> {} ]

\* The rate-limit check at the top of _request: TRUE when RateLimitError is
\* raised before anything is sent.
request_entry(self, t) ==
    self.rate_limit_reset # {} /\ t < Val(self.rate_limit_reset)

\* if retry_count < retry_attempts: sleep(2 ** retry_count) and recurse,
\* else raise `exhausted`.
retry_or_raise(self, retry_count, exhausted) ==
    IF retry_count < self.retry_attempts
    THEN [client |-> self, do |-> "retry", error |-> "none",
          sleep |-> Pow(2, retry_count)]
    ELSE [client |-> self, do |-> "raise", error |-> exhausted, sleep |-> 0]

\* The body of _request from the response on: the client afterwards and
\* whether the call returns, raises `error`, or sleeps and recurses.
handle_response_forgets_reset(self, resp, retry_count, t) ==
    IF resp.kind = "status" /\ resp.status = 429
    THEN [client |-> self, do |-> "raise", error |-> "RateLimitError", sleep |-> 0]
    ELSE [client |-> self, do |-> "return", error |-> "none", sleep |-> 0]

handle_response(self, resp, retry_count, t) ==
    CASE resp.kind = "timeout" ->
            retry_or_raise(self, retry_count, "TimeoutError")
      [] resp.kind = "client_error" ->
            retry_or_raise(self, retry_count, "NetworkError")
      [] resp.status = 429 ->
            [client |-> IF resp.retry_after # {}
                        THEN [self EXCEPT !.rate_limit_reset =
                                              {t + Val(resp.retry_after)}]
                        ELSE self,
             do |-> "raise", error |-> "RateLimitError", sleep |-> 0]
      [] resp.status = 401 ->
            [client |-> self, do |-> "raise", error |-> "AuthenticationError",
             sleep |-> 0]
      [] resp.status >= 400 /\ resp.status < 500 ->
            [client |-> self, do |-> "raise",
             error |-> IF resp.status = 422 THEN "ValidationError"
                                            ELSE "OracleError",
             sleep |-> 0]
      [] resp.status >= 500 ->
            retry_or_raise(self, retry_count, "NetworkError")
      [] OTHER ->
            [client |-> self, do |-> "return", error |-> "none", sleep |-> 0]

HttpIdlePc == [at |-> "idle", retry_count |-> 0, wake |-> 0, sends |-> 0]

NoHttpEvt ==
    [ kind |-> "none", task |-> 0, at |-> 0, retry_count |-> 0,
      deadline |-> {}, rejected |-> FALSE, sentBefore |-> 0,
      resp |-> [kind |-> "none", status |-> 0, retry_after |-> {}] ]

HttpInitWith(retry_attempts) ==
    /\ http = OpenOracleClient(retry_attempts)
    /\ httpPc = [t \in Tasks |-> HttpIdlePc]
    /\ httpRes = [t \in Tasks |-> [outcome |-> "none", sends |-> 0]]
    /\ httpEvt = NoHttpEvt
    /\ httpSent = 0
    /\ httpDeadline = {}

HttpInit == \E n \in 0..MaxHttpRetries : HttpInitWith(n)

HttpIdle == HttpInitWith(0)

\* Entry into _request with the given retry_count: the rate-limit check, then
\* the request goes out.
HttpEnter(t, retry_count, sends) ==
    /\ httpSent < MaxSends
    /\ LET rejected == request_entry(http, now)
       IN  /\ httpPc' = [httpPc EXCEPT ![t] =
                  IF rejected THEN HttpIdlePc
                  ELSE [at |-> "sent", retry_count |-> retry_count,
                        wake |-> 0, sends |-> sends + 1]]
           /\ httpRes' = [httpRes EXCEPT ![t] =
                  IF rejected
                  THEN [outcome |-> "RateLimitError", sends |-> sends]
                  ELSE [outcome |-> "none", sends |-> 0]]
           /\ httpSent' = IF rejected THEN httpSent ELSE httpSent + 1
           /\ httpEvt' = [ kind |-> "entry", task |-> t, at |-> now,
                           retry_count |-> retry_count,
                           deadline |-> httpDeadline, rejected |-> rejected,
                           sentBefore |-> httpSent,
                           resp |-> NoHttpEvt.resp ]
    /\ UNCHANGED <<now, http, httpDeadline, cbVars, rtVars, rlVars, routeVars, memVars, fileVars, adVars, llmVars, aggVars, schemaVars, configVars, arlVars>>

\* A task calls get/post/put/delete: _request with retry_count = 0.
HttpCall(t) ==
    /\ httpPc[t].at = "idle"
    /\ HttpEnter(t, 0, 0)

\* The response (or the transport error) of a request on the wire arrives.
HttpResponse(t, resp) ==
    /\ httpPc[t].at = "sent"
    /\ LET h == handle_response(http, resp, httpPc[t].retry_count, now)
       IN  /\ http' = h.client
           /\ httpPc' = [httpPc EXCEPT ![t] =
                  IF h.do = "retry"
                  THEN [@ EXCEPT !.at = "backoff", !.wake = now + h.sleep]
                  ELSE HttpIdlePc]
           /\ httpRes' = [httpRes EXCEPT ![t] =
                  CASE h.do = "return" -> [outcome |-> "ok", sends |-> httpPc[t].sends]
                    [] h.do = "raise"  -> [outcome |-> h.error, sends |-> httpPc[t].sends]
                    [] OTHER           -> @]
    /\ httpDeadline' = IF resp.kind = "status" /\ resp.status = 429
                          /\ resp.retry_after # {}
                       THEN {now + Val(resp.retry_after)}
                       ELSE httpDeadline
    /\ httpEvt' = [ kind |-> "response", task |-> t, at |-> now,
                    retry_count |-> httpPc[t].retry_count,
                    deadline |-> httpDeadline, rejected |-> FALSE,
                    sentBefore |-> httpSent, resp |-> resp ]
    /\ UNCHANGED <<now, httpSent, cbVars, rtVars, rlVars, routeVars, memVars, fileVars, adVars, llmVars, aggVars, schemaVars, configVars, arlVars>>

\* asyncio.sleep(2 ** retry_count) is over: _request(..., retry_count + 1).
HttpRetry(t) ==
    /\ httpPc[t].at = "backoff"
    /\ now >= httpPc[t].wake
    /\ HttpEnter(t, httpPc[t].retry_count + 1, httpPc[t].sends)

NextHttp ==
    \/ Tick
    \/ \E t \in Tasks : HttpCall(t)
    \/ \E t \in Tasks, r \in Responses : HttpResponse(t, r)
    \/ \E t \in Tasks : HttpRetry(t)

\* C8: a request that failed with a 5xx status, a timeout, a connection error
\* or a 429 is retried (for the 429 not before retry_after has passed) while
\* retries are left, and any other 4xx failure surfaces without a retry.
Retriable429(r) == r.kind = "status" /\ r.status = 429
RetriableOther(r) ==
    r.kind \in {"timeout", "client_error"} \/ (r.kind = "status" /\ r.status >= 500)
Other4xx(r) ==
    r.kind = "status" /\ r.status >= 400 /\ r.status < 500 /\ r.status # 429

C8_RetriesRetriableOnly ==
    httpEvt.kind = "response" =>
        LET t == httpEvt.task
            left == httpEvt.retry_count < http.retry_attempts
        IN  /\ (RetriableOther(httpEvt.resp) /\ left) => httpPc[t].at # "idle"
            /\ (Retriable429(httpEvt.resp) /\ left)
                  => /\ httpPc[t].at # "idle"
                     /\ \A ra \in httpEvt.resp.retry_after :
                            httpPc[t].at = "backoff"
                                => httpPc[t].wake >= httpEvt.at + ra
            /\ Other4xx(httpEvt.resp)
                  => /\ httpPc[t].at = "idle"
                     /\ httpRes[t].outcome \notin {"none", "ok"}

\* C9: after a 429 response with Retry-After: s, a call that starts before the
\* reset deadline (the time of that response plus s) raises RateLimitError
\* without sending anything, and a call that starts at or after it is sent.
C9_LocalRejectUntilDeadline ==
    httpEvt.kind = "entry" =>
        LET t == httpEvt.task
            early == \E d \in httpEvt.deadline : httpEvt.at < d
        IN  /\ early
               => /\ httpEvt.rejected
                  /\ httpSent = httpEvt.sentBefore
                  /\ httpPc[t].at = "idle"
                  /\ httpRes[t].outcome = "RateLimitError"
            /\ ~early
               => /\ ~httpEvt.rejected
                  /\ httpSent = httpEvt.sentBefore + 1
                  /\ httpPc[t].at = "sent"

C9_Witness ==
    /\ httpEvt.kind = "entry"
    /\ httpEvt.retry_count = 0
    /\ \E d \in httpEvt.deadline : d > 0 /\ httpEvt.at >= d
    /\ ~httpEvt.rejected
    /\ \E t \in Tasks : httpRes[t] = [outcome |-> "RateLimitError", sends |-> 0]

----------------------------------------------------------------------------
(* utils/retry.py: RateLimiter *)

RateLimiter(max_tokens, refill_rate, t) ==
    [ max_tokens  |-> max_tokens,
      refill_rate |-> refill_rate,
      tokens      |-> max_tokens,
      last_refill |-> t ]

refill_tokens(self, t) ==
    LET elapsed == t - self.last_refill
        tokens_to_add == elapsed * self.refill_rate
    IN  [self EXCEPT !.tokens = Min(self.max_tokens, self.tokens + tokens_to_add),
                     !.last_refill = t]

\* The body of acquire, run under self._lock: the limiter afterwards and the
\* value returned.
acquire_any_token_suffices(self, tokens_needed, t) ==
    LET r == refill_tokens(self, t)
    IN  IF r.tokens > 0
        THEN [limiter |-> [r EXCEPT !.tokens = @ - tokens_needed], ok |-> TRUE]
        ELSE [limiter |-> r, ok |-> FALSE]

acquire(self, tokens_needed, t) ==
    LET r == refill_tokens(self, t)
    IN  IF r.tokens >= tokens_needed
        THEN [limiter |-> [r EXCEPT !.tokens = @ - tokens_needed], ok |-> TRUE]
        ELSE [limiter |-> r, ok |-> FALSE]

RlIdlePc == [at |-> "idle", need |-> 0, ok |-> FALSE, took |-> 0]

RLInitWith(max_tokens, refill_rate) ==
    /\ rl = RateLimiter(max_tokens, refill_rate, 0)
    /\ rlLock = {}
    /\ rlPc = [t \in Tasks |-> RlIdlePc]
    /\ rlOut = 0

RLInit == \E m \in 1..MaxTokens, r \in 1..MaxRate : RLInitWith(m, r)

RLIdle == RLInitWith(1, 1)

\* A task calls wait_for_tokens(n) and reaches `async with self._lock`.
RLWait(t, n) ==
    /\ rlPc[t].at = "idle"
    /\ rlPc' = [rlPc EXCEPT ![t] = [at |-> "acquiring", need |-> n,
                                    ok |-> FALSE, took |-> 0]]
    /\ UNCHANGED <<now, rl, rlLock, rlOut, cbVars, rtVars, httpVars, routeVars, memVars, fileVars, adVars, llmVars, aggVars, schemaVars, configVars, arlVars>>

\* The lock is free and the task takes it.
RLLock(t) ==
    /\ rlPc[t].at = "acquiring"
    /\ rlLock = {}
    /\ rlLock' = {t}
    /\ rlPc' = [rlPc EXCEPT ![t].at = "locked"]
    /\ UNCHANGED <<now, rl, rlOut, cbVars, rtVars, httpVars, routeVars, memVars, fileVars, adVars, llmVars, aggVars, schemaVars, configVars, arlVars>>

\* acquire refills, takes the tokens if there are enough, releases the lock
\* and returns.
RLBody(t) ==
    /\ rlPc[t].at = "locked"
    /\ LET a == acquire(rl, rlPc[t].need, now)
       IN  /\ rl' = a.limiter
           /\ rlPc' = [rlPc EXCEPT ![t].at = "checked", ![t].ok = a.ok,
                          ![t].took = refill_tokens(rl, now).tokens - a.limiter.tokens]
           /\ rlOut' = IF a.ok THEN rlOut + rlPc[t].need ELSE rlOut
    /\ rlLock' = {}
    /\ UNCHANGED <<now, cbVars, rtVars, httpVars, routeVars, memVars, fileVars, adVars, llmVars, aggVars, schemaVars, configVars, arlVars>>

\* while not await self.acquire(n): sleep(min(shortfall / refill_rate, 1.0)).
RLLoop(t) ==
    /\ rlPc[t].at = "checked"
    /\ rlPc' = [rlPc EXCEPT ![t].at = IF rlPc[t].ok THEN "done" ELSE "sleeping"]
    /\ UNCHANGED <<now, rl, rlLock, rlOut, cbVars, rtVars, httpVars, routeVars, memVars, fileVars, adVars, llmVars, aggVars, schemaVars, configVars, arlVars>>

\* The sleep of at most one second is over; the loop calls acquire again.
RLWake(t) ==
    /\ rlPc[t].at = "sleeping"
    /\ rlPc' = [rlPc EXCEPT ![t].at = "acquiring"]
    /\ UNCHANGED <<now, rl, rlLock, rlOut, cbVars, rtVars, httpVars, routeVars, memVars, fileVars, adVars, llmVars, aggVars, schemaVars, configVars, arlVars>>

\* The task is cancelled at one of its suspension points.
RLCancel(t) ==
    /\ rlPc[t].at \in {"acquiring", "sleeping"}
    /\ rlPc' = [rlPc EXCEPT ![t].at = "cancelled"]
    /\ UNCHANGED <<now, rl, rlLock, rlOut, cbVars, rtVars, httpVars, routeVars, memVars, fileVars, adVars, llmVars, aggVars, schemaVars, configVars, arlVars>>

\* The caller goes on after wait_for_tokens returned or was cancelled.
RLLeave(t) ==
    /\ rlPc[t].at \in {"done", "cancelled"}
    /\ rlPc' = [rlPc EXCEPT ![t] = RlIdlePc]
    /\ UNCHANGED <<now, rl, rlLock, rlOut, cbVars, rtVars, httpVars, routeVars, memVars, fileVars, adVars, llmVars, aggVars, schemaVars, configVars, arlVars>>

NextRL ==
    \/ Tick
    \/ \E t \in Tasks, n \in 1..MaxTokens : RLWait(t, n)
    \/ \E t \in Tasks : RLLock(t)
    \/ \E t \in Tasks : RLBody(t)
    \/ \E t \in Tasks : RLLoop(t)
    \/ \E t \in Tasks : RLWake(t)
    \/ \E t \in Tasks : RLCancel(t)
    \/ \E t \in Tasks : RLLeave(t)

\* One task alone uses the limiter, so no other task takes tokens.  The clock
\* of the model stops at MaxTime: a call is started only while the clock can
\* still run the tokens_needed seconds after which a bucket of that capacity
\* holds tokens_needed tokens again.
Alone == CHOOSE t \in Tasks : \A u \in Tasks : t <= u

RLWaitAlone(n) ==
    /\ now + n <= MaxTime
    /\ RLWait(Alone, n)

NextRLAlone ==
    \/ Tick
    \/ \E n \in 1..MaxTokens : RLWaitAlone(n)
    \/ RLLock(Alone)
    \/ RLBody(Alone)
    \/ RLLoop(Alone)
    \/ RLWake(Alone)
    \/ RLLeave(Alone)

\* The event loop runs every task that is ready, a sleep ends, and time
\* passes.
FairRLAlone ==
    /\ WF_vars(Tick)
    /\ WF_vars(RLLock(Alone))
    /\ WF_vars(RLBody(Alone))
    /\ WF_vars(RLLoop(Alone))
    /\ WF_vars(RLWake(Alone))

\* C10: a task waiting for n tokens goes on only after exactly n tokens were
\* taken from the bucket for it, and otherwise (suspended or cancelled) has
\* taken none; the bucket never goes below zero, and no more tokens are handed
\* out than the capacity plus what the refill rate yields over the time passed.
C10_ProceedsOnlyWithTokens ==
    /\ \A t \in Tasks :
          /\ rlPc[t].at = "done" => rlPc[t].took = rlPc[t].need
          /\ rlPc[t].at = "checked" =>
                rlPc[t].took = IF rlPc[t].ok THEN rlPc[t].need ELSE 0
          /\ rlPc[t].at \in {"acquiring", "locked", "sleeping", "cancelled"}
                => rlPc[t].took = 0
    /\ rl.tokens >= 0
    /\ rl.tokens <= rl.max_tokens
    /\ rlOut <= rl.max_tokens + rl.refill_rate * now

C10_Witness ==
    \E t \in Tasks, u \in Tasks :
        /\ t # u
        /\ rlPc[t].at = "done"
        /\ rlPc[t].need = 2
        /\ rlPc[u].at = "sleeping"
        /\ now >= 1

\* C29: with refill_rate > 0 and no other task taking tokens,
\* wait_for_tokens(n) eventually returns, for every n >= 1.
C29_WaitForTokensReturns ==
    (rlPc[Alone].at = "acquiring") ~> (rlPc[Alone].at = "done")

----------------------------------------------------------------------------
(* ai/question_analyzer.py, ai/routing_engine.py, ai/enhancement_service.py,
   schemas/oracle_schemas.py: rule-based routing and the enhancement merge.
   Confidences are in hundredths, money in cents. *)

\* Python string operations, character by character.
CharAt(s, i) == SubSeq(s, i, i)

Contains(s, k) ==
    \E i \in 1..(Len(s) - Len(k) + 1) : SubSeq(s, i, i + Len(k) - 1) = k

UpperCase == "ABCDEFGHIJKLMNOPQRSTUVWXYZ"
LowerCase == "abcdefghijklmnopqrstuvwxyz"
Digits == "0123456789"

Translate(c, from, to) ==
    IF Contains(from, c)
    THEN CharAt(to, CHOOSE i \in 1..Len(from) : CharAt(from, i) = c)
    ELSE c

RECURSIVE lower(_)
lower(s) ==
    IF Len(s) = 0 THEN ""
    ELSE Translate(CharAt(s, 1), UpperCase, LowerCase) \o lower(SubSeq(s, 2, Len(s)))

RECURSIVE upper(_)
upper(s) ==
    IF Len(s) = 0 THEN ""
    ELSE Translate(CharAt(s, 1), LowerCase, UpperCase) \o upper(SubSeq(s, 2, Len(s)))

\* len(keyword.split())
split_len(s) == 1 + Cardinality({ i \in 1..Len(s) : CharAt(s, i) = " " })

\* The regular expressions of the analyzer: a pattern is a sequence of
\* elements, an alternation of literals ("alt"), one or more characters of a
\* class ("plus": s for \s, w for \w, n for [\d,], u for [A-Z]) or a word
\* boundary ("b").  Positions are the index of the next character to read.
Lit(a) == [t |-> "alt", v |-> {a}]
Alt(S) == [t |-> "alt", v |-> S]
Optional(a) == [t |-> "alt", v |-> {a, ""}]
Plus(c) == [t |-> "plus", v |-> {c}]
Boundary == [t |-> "b", v |-> {}]

CharsOf(s) == { CharAt(s, i) : i \in 1..Len(s) }

CharClasses ==
    [ s |-> {" "},
      w |-> CharsOf(LowerCase) \cup CharsOf(UpperCase) \cup CharsOf(Digits) \cup {"_"},
      n |-> CharsOf(Digits) \cup {","},
      u |-> CharsOf(UpperCase) ]

InClass(cls, c) == c \in CharClasses[cls]

IsWordAt(s, i) == i >= 1 /\ i <= Len(s) /\ InClass("w", CharAt(s, i))

re_step(e, s, P) ==
    CASE e.t = "alt" ->
            { p + Len(a) : <<p, a>> \in
                { pa \in P \X e.v :
                    /\ pa[1] + Len(pa[2]) - 1 <= Len(s)
                    /\ (Len(pa[2]) = 0
                          \/ SubSeq(s, pa[1], pa[1] + Len(pa[2]) - 1) = pa[2]) } }
      [] e.t = "plus" ->
            { r \in 2..(Len(s) + 1) :
                \E p \in P : p < r /\ \A i \in p..(r - 1) :
                    \A cls \in e.v : InClass(cls, CharAt(s, i)) }
      [] e.t = "b" ->
            { p \in P : IsWordAt(s, p - 1) # IsWordAt(s, p) }

RECURSIVE re_ends(_, _, _)
re_ends(pattern, s, P) ==
    IF pattern = << >> THEN P
    ELSE re_ends(Tail(pattern), s, re_step(Head(pattern), s, P))

re_search(pattern, s) == re_ends(pattern, s, 1..(Len(s) + 1)) # {}

\* QuestionAnalyzer.CATEGORY_KEYWORDS, in the order of the dict.
CATEGORY_KEYWORDS ==
    << [category |-> "price", keywords |->
          << "price", "cost", "value", "worth", "usd", "dollar", "euro", "btc",
             "eth", "bitcoin", "ethereum", "crypto", "stock", "share",
             "market cap", "above", "below", "exceed", "reach", "trade",
             "close", "open", "hit" >>],
       [category |-> "sports", keywords |->
          << "game", "match", "score", "win", "lose", "champion", "playoff",
             "tournament", "team", "player", "goal", "point", "nfl", "nba",
             "mlb", "super bowl", "world series", "finals", "mvp", "draft",
             "trade deadline", "season", "touchdown", "field goal", "home run",
             "strikeout", "penalty" >>],
       [category |-> "weather", keywords |->
          << "weather", "temperature", "rain", "snow", "wind", "hurricane",
             "storm", "celsius", "fahrenheit", "forecast", "climate",
             "drought" >>],
       [category |-> "election", keywords |->
          << "election", "vote", "poll", "candidate", "president", "senate",
             "congress", "governor", "ballot", "primary", "electoral",
             "democrat", "republican", "independent", "caucus", "debate",
             "campaign" >>],
       [category |-> "economic", keywords |->
          << "gdp", "inflation", "cpi", "unemployment", "interest rate", "fed",
             "economy", "recession", "growth", "jobs report", "consumer",
             "fomc" >>] >>

\* QuestionAnalyzer.MARKET_PATTERNS, flattened in the order the loops visit
\* them.  The date_based patterns follow and change no score.
MARKET_PATTERNS ==
    << [type |-> "binary_outcome", pattern |->
          << Lit("will"), Plus("s"), Plus("w"), Plus("s"), Lit("win") >>],
       [type |-> "binary_outcome", pattern |->
          << Lit("will"), Plus("s"), Plus("w"), Plus("s"), Lit("be"),
             Plus("s"), Lit("elected") >>],
       [type |-> "binary_outcome", pattern |->
          << Lit("will"), Plus("s"), Plus("w"), Plus("s"), Lit("happen") >>],
       [type |-> "binary_outcome", pattern |->
          << Lit("will"), Plus("s"), Lit("there"), Plus("s"), Lit("be") >>],
       [type |-> "binary_outcome", pattern |->
          << Lit("will"), Plus("s"), Plus("w"), Plus("s"), Lit("exceed") >>],
       [type |-> "binary_outcome", pattern |->
          << Lit("will"), Plus("s"), Plus("w"), Plus("s"), Lit("reach") >>],
       [type |-> "price_threshold", pattern |->
          << Alt({"above", "below", "over", "under"}), Plus("s"),
             Optional("$"), Plus("n") >>],
       [type |-> "price_threshold", pattern |->
          << Lit("exceed"), Plus("s"), Optional("$"), Plus("n") >>],
       [type |-> "price_threshold", pattern |->
          << Lit("hit"), Plus("s"), Optional("$"), Plus("n") >>] >>

keyword_weight(keyword) ==
    IF split_len(keyword) > 1 THEN split_len(keyword) * 2 ELSE 1

RECURSIVE keyword_score(_, _)
keyword_score(keywords, question_lower) ==
    IF keywords = << >> THEN 0
    ELSE (IF Contains(question_lower, Head(keywords))
          THEN keyword_weight(Head(keywords)) ELSE 0)
         + keyword_score(Tail(keywords), question_lower)

\* category_scores is a dict: here the sequence of its items in insertion
\* order, which is the order max() breaks ties in.
RECURSIVE score_categories(_, _)
score_categories(table, question_lower) ==
    IF table = << >> THEN << >>
    ELSE LET score == keyword_score(Head(table).keywords, question_lower)
             rest == score_categories(Tail(table), question_lower)
         IN  IF score > 0
             THEN << [category |-> Head(table).category, score |-> score] >> \o rest
             ELSE rest

dict_add(scores, category, n) ==
    IF \E i \in 1..Len(scores) : scores[i].category = category
    THEN [ i \in 1..Len(scores) |->
             IF scores[i].category = category
             THEN [scores[i] EXCEPT !.score = @ + n] ELSE scores[i] ]
    ELSE Append(scores, [category |-> category, score |-> n])

max_key(scores) ==
    LET best == CHOOSE i \in 1..Len(scores) :
                   /\ \A j \in 1..Len(scores) : scores[j].score <= scores[i].score
                   /\ \A j \in 1..(i - 1) : scores[j].score < scores[i].score
    IN  scores[best]

RECURSIVE boost_patterns(_, _, _)
boost_patterns(patterns, question_lower, scores) ==
    IF patterns = << >> THEN scores
    ELSE LET p == Head(patterns)
             boosted ==
                IF ~re_search(p.pattern, question_lower) THEN scores
                ELSE IF p.type = "price_threshold" THEN dict_add(scores, "price", 5)
                ELSE IF scores # << >>
                     THEN dict_add(scores, max_key(scores).category, 3)
                     ELSE scores
         IN  boost_patterns(Tail(patterns), question_lower, boosted)

analyze_question(question) ==
    LET question_lower == lower(question)
        category_scores ==
            boost_patterns(MARKET_PATTERNS, question_lower,
                           score_categories(CATEGORY_KEYWORDS, question_lower))
    IN  IF category_scores = << >>
        THEN [category |-> "custom", confidence |-> 30]
        ELSE [category |-> max_key(category_scores).category,
              confidence |-> Min(max_key(category_scores).score * 10, 100)]

CryptoSymbols ==
    {"BTC", "ETH", "SOL", "AVAX", "MATIC", "BNB", "USDC", "USDT", "ADA", "DOT",
     "LINK", "UNI"}

stock_companies ==
    { <<"tesla", "TSLA">>, <<"apple", "AAPL">>, <<"microsoft", "MSFT">>,
      <<"google", "GOOGL">>, <<"amazon", "AMZN">>, <<"netflix", "NFLX">>,
      <<"meta", "META">>, <<"nvidia", "NVDA">> }

\* list(set(assets)): the assets as a set.
extract_assets(question) ==
    LET crypto_matches ==
            { sym \in CryptoSymbols :
                re_search(<< Boundary, Lit(sym), Boundary >>, upper(question)) }
        company_matches ==
            { ct[2] : ct \in { c \in stock_companies :
                                 Contains(lower(question), c[1]) } }
        ticker_spans ==
            { ij \in (1..Len(question)) \X (1..Len(question)) :
                /\ ij[1] <= ij[2]
                /\ ij[2] - ij[1] < 5
                /\ \A i \in ij[1]..ij[2] : InClass("u", CharAt(question, i))
                /\ ~IsWordAt(question, ij[1] - 1)
                /\ ~IsWordAt(question, ij[2] + 1)
                /\ re_ends(<< Plus("s"), Alt({"stock", "share", "price"}) >>,
                           question, {ij[2] + 1}) # {} }
        ticker_matches == { SubSeq(question, ij[1], ij[2]) : ij \in ticker_spans }
    IN  crypto_matches \cup company_matches \cup ticker_matches

\* The entries of the requirements dict that routing reads.
extract_data_requirements(question) ==
    [ assets |-> extract_assets(question),
      original_question |-> question ]

\* RoutingEngine.ORACLE_CAPABILITIES, in the order of the dict; reliability
\* in per cent, cost in cents, specialties by their keys.
ProviderOrder == << "chainlink", "pyth", "band", "uma", "api3" >>

ORACLE_CAPABILITIES ==
    [ chainlink |->
        [ categories |-> {"price", "sports", "weather", "random", "stocks", "forex"},
          update_freq |-> "high_freq",
          chains |-> {"ethereum", "polygon", "arbitrum", "optimism", "avalanche", "bnb"},
          latency_ms |-> 500, reliability |-> 99, cost_usd |-> 50,
          specialties |-> {"sports", "weather", "stocks"} ],
      pyth |->
        [ categories |-> {"price", "stocks", "forex", "commodities"},
          update_freq |-> "realtime",
          chains |-> {"solana", "ethereum", "arbitrum", "optimism", "base"},
          latency_ms |-> 100, reliability |-> 98, cost_usd |-> 10,
          specialties |-> {"crypto", "stocks", "forex"} ],
      band |->
        [ categories |-> {"price", "stocks", "forex", "commodities", "custom"},
          update_freq |-> "medium_freq",
          chains |-> {"cosmos", "ethereum", "binance", "polygon"},
          latency_ms |-> 1000, reliability |-> 95, cost_usd |-> 30,
          specialties |-> {"custom", "cross_chain"} ],
      uma |->
        [ categories |-> {"custom", "events", "economic", "election"},
          update_freq |-> "on_demand",
          chains |-> {"ethereum", "polygon", "arbitrum"},
          latency_ms |-> 7200000, reliability |-> 97, cost_usd |-> 10000,
          specialties |-> {"elections", "events", "economic"} ],
      api3 |->
        [ categories |-> {"price", "weather", "sports", "custom", "nft"},
          update_freq |-> "medium_freq",
          chains |-> {"ethereum", "polygon", "avalanche", "bnb", "arbitrum"},
          latency_ms |-> 800, reliability |-> 96, cost_usd |-> 25,
          specialties |-> {"weather", "nft"} ] ]

\* Python truth of an optional number and of an optional list: None, 0 and
\* the empty list are false.
TruthyNumber(o) == o # {} /\ Val(o) # 0
TruthyList(o) == o # {} /\ Val(o) # << >>

SeqToSet(q) == { q[i] : i \in 1..Len(q) }

\* preference_score in ten-thousandths: reliability, 0.1 for a specialty
\* named like the category, 0.05 / (latency_ms / 1000 + 1).  The scores of
\* the table differ by far more than the rounding of the last term.
preference_score(oracle, category) ==
    LET capabilities == ORACLE_CAPABILITIES[oracle]
    IN  capabilities.reliability * 100
        + (IF category \in capabilities.specialties THEN 1000 ELSE 0)
        + 500000 \div (capabilities.latency_ms + 1000)

\* sorted(oracles, key=preference_score, reverse=True): stable.
RECURSIVE sort_oracles_by_preference(_, _)
sort_oracles_by_preference(oracles, category) ==
    IF oracles = << >> THEN << >>
    ELSE LET first == CHOOSE i \in 1..Len(oracles) :
                /\ \A j \in 1..Len(oracles) :
                      preference_score(oracles[j], category)
                          <= preference_score(oracles[i], category)
                /\ \A j \in 1..(i - 1) :
                      preference_score(oracles[j], category)
                          < preference_score(oracles[i], category)
             rest == [ k \in 1..(Len(oracles) - 1) |->
                         IF k < first THEN oracles[k] ELSE oracles[k + 1] ]
         IN  << oracles[first] >> \o sort_oracles_by_preference(rest, category)

find_suitable_oracles_ignores_cost(category, required_chains, max_latency, max_cost, preferred_providers) ==
    LET suits(provider) ==
            LET capabilities == ORACLE_CAPABILITIES[provider]
            IN  /\ ~(TruthyList(preferred_providers)
                       /\ provider \notin SeqToSet(Val(preferred_providers)))
                /\ category \in capabilities.categories
                /\ ~(TruthyList(required_chains)
                       /\ { lower(chain) : chain \in SeqToSet(Val(required_chains)) }
                             \cap capabilities.chains = {})
                /\ ~(TruthyNumber(max_latency)
                       /\ capabilities.latency_ms > Val(max_latency))
    IN  sort_oracles_by_preference(SelectSeq(ProviderOrder, suits), category)

find_suitable_oracles(category, required_chains, max_latency, max_cost, preferred_providers) ==
    LET suits(provider) ==
            LET capabilities == ORACLE_CAPABILITIES[provider]
            IN  /\ ~(TruthyList(preferred_providers)
                       /\ provider \notin SeqToSet(Val(preferred_providers)))
                /\ category \in capabilities.categories
                /\ ~(TruthyList(required_chains)
                       /\ { lower(chain) : chain \in SeqToSet(Val(required_chains)) }
                             \cap capabilities.chains = {})
                /\ ~(TruthyNumber(max_latency)
                       /\ capabilities.latency_ms > Val(max_latency))
                /\ ~(TruthyNumber(max_cost)
                       /\ capabilities.cost_usd > Val(max_cost))
    IN  sort_oracles_by_preference(SelectSeq(ProviderOrder, suits), category)

\* ', '.join(assets); the order of list(set(...)) is not defined for more
\* than one asset.
RECURSIVE join(_)
join(assets) ==
    IF assets = {} THEN ""
    ELSE LET a == CHOOSE x \in assets : TRUE
         IN  IF assets = {a} THEN a ELSE a \o ", " \o join(assets \ {a})

any_in(keywords, question) == \E keyword \in keywords : Contains(question, keyword)

\* Decimal("0.50") printed: dollars, a point, two digits.
money(cents) ==
    ToString(cents \div 100) \o "."
        \o (IF cents % 100 < 10 THEN "0" ELSE "") \o ToString(cents % 100)

select_best_oracle(suitable_oracles, category, requirements) ==
    LET question == lower(requirements.original_question)
        assets == requirements.assets
        suitable == SeqToSet(suitable_oracles)
        best_oracle == suitable_oracles[1]
        capabilities == ORACLE_CAPABILITIES[best_oracle]
        crypto == assets \cap {"BTC", "ETH", "SOL", "AVAX"} # {}
        fed == any_in({"fed", "federal reserve", "powell", "interest rate", "fomc"}, question)
        corporate == any_in({"announce", "launch", "ipo", "earnings", "merger"}, question)
        social == any_in({"tweet", "post", "follower", "ban", "suspend"}, question)
        pick(oracle, reasoning) == [oracle |-> {oracle}, reasoning |-> reasoning]
    IN  IF suitable_oracles = << >>
        THEN [oracle |-> {}, reasoning |-> "No suitable oracles available"]
        ELSE IF category = "price" /\ assets # {} /\ crypto /\ "pyth" \in suitable
        THEN pick("pyth", "Pyth Network selected for " \o join(assets)
                  \o " - provides sub-second price updates from major exchanges with 100ms latency")
        ELSE IF category = "price" /\ assets # {} /\ crypto /\ "chainlink" \in suitable
        THEN pick("chainlink", "Chainlink selected for " \o join(assets)
                  \o " - industry-leading price aggregation with 99% uptime")
        ELSE IF category = "sports" /\ "chainlink" \in suitable
        THEN pick("chainlink", "Chainlink selected for sports data - exclusive partnerships with TheRundown and SportsdataIO for official game results")
        ELSE IF category = "sports" /\ "api3" \in suitable
        THEN pick("api3", "API3 selected for sports data - first-party oracle connections to major sports APIs")
        ELSE IF category = "election" /\ "uma" \in suitable
        THEN pick("uma", "UMA Optimistic Oracle selected for election results - human verification ensures accuracy with dispute resolution mechanism")
        ELSE IF category = "economic" /\ fed /\ "uma" \in suitable
        THEN pick("uma", "UMA selected for Fed decisions - optimistic oracle with human verification of official FOMC statements")
        ELSE IF category = "economic" /\ ~fed /\ "chainlink" \in suitable
        THEN pick("chainlink", "Chainlink selected for economic data - automated feeds from official government sources")
        ELSE IF category = "weather" /\ "api3" \in suitable
        THEN pick("api3", "API3 selected for weather data - direct first-party connections to NOAA and AccuWeather")
        ELSE IF category = "weather" /\ "chainlink" \in suitable
        THEN pick("chainlink", "Chainlink selected for weather data - verified AccuWeather integration with high reliability")
        ELSE IF category \in {"custom", "events"} /\ corporate /\ "uma" \in suitable
        THEN pick("uma", "UMA selected for corporate events - optimistic oracle ensures accurate verification of official announcements")
        ELSE IF category \in {"custom", "events"} /\ social /\ "band" \in suitable
        THEN pick("band", "Band Protocol selected for social media data - flexible API integration for real-time social metrics")
        ELSE IF category = "nft" /\ "api3" \in suitable
        THEN pick("api3", "API3 selected for NFT floor prices - direct OpenSea and Blur marketplace connections")
        ELSE pick(best_oracle,
                  best_oracle \o " selected as optimal choice - "
                    \o ToString(capabilities.reliability) \o "% reliability, "
                    \o ToString(capabilities.latency_ms) \o "ms latency, $"
                    \o money(capabilities.cost_usd) \o " estimated cost")

\* The keys of the configuration that every provider's branch sets.
build_oracle_config(provider, category, requirements) ==
    [ provider |-> provider, category |-> category, requirements |-> requirements ]

calculate_confidence_boost(oracle, category, requirements) ==
    LET capabilities == ORACLE_CAPABILITIES[oracle]
        assets == requirements.assets
    IN  (IF category \in capabilities.specialties THEN 15 ELSE 0)
        + (IF category = "price" /\ assets # {}
              /\ \/ oracle = "pyth" /\ assets \cap {"BTC", "ETH", "SOL", "AVAX"} # {}
                 \/ oracle = "chainlink"
                       /\ assets \cap {"AAPL", "TSLA", "MSFT", "GOOGL"} # {}
           THEN 10 ELSE 0)
        + (IF capabilities.reliability >= 98 THEN 5 ELSE 0)

get_resolution_method(provider) ==
    CASE provider = "chainlink" -> "aggregated"
      [] provider = "pyth"      -> "direct_pull"
      [] provider = "band"      -> "cross_chain_aggregated"
      [] provider = "uma"       -> "optimistic_human_verified"
      [] provider = "api3"      -> "first_party_signed"
      [] OTHER                  -> "automated"

\* schemas/oracle_schemas.py: OracleRoutingRequest.  The fields that fail
\* validation; the constructor raises ValidationError unless there are none.
OracleRoutingRequest(fields) ==
    { f \in {"max_latency_ms", "max_cost_usd"} :
        fields[f] # {} /\ ~(Val(fields[f]) > 0) }

NoResponseFields ==
    [ can_resolve |-> FALSE, selected_oracle |-> {}, reasoning |-> "",
      oracle_config |-> {}, alternatives |-> {}, data_type |-> {},
      required_feeds |-> {}, estimated_cost_usd |-> {},
      estimated_latency_ms |-> {}, confidence_score |-> 0,
      resolution_method |-> {}, update_frequency |-> {} ]

\* OracleRoutingResponse: the fields that fail validation (the bounds of
\* confidence_score, the Literal of resolution_method, validate_selection).
OracleRoutingResponse(fields) ==
    { f \in {"selected_oracle", "confidence_score", "resolution_method"} :
        \/ f = "selected_oracle" /\ fields.can_resolve /\ fields.selected_oracle = {}
        \/ f = "confidence_score"
              /\ ~(fields.confidence_score >= 0 /\ fields.confidence_score <= 100)
        \/ f = "resolution_method" /\ fields.resolution_method # {}
              /\ Val(fields.resolution_method)
                    \notin {"direct", "aggregated", "optimistic"} }

\* str(e) of the pydantic ValidationError, by the fields it lists.
validation_message(model, errors) ==
    "validation error for " \o model \o ": "
        \o join(errors)

routing_error(message) ==
    [NoResponseFields EXCEPT !.reasoning = "Routing error: " \o message]

\* The questions of the model, and what the analyzer returns for each.
Questions ==
    { "Will BTC exceed $100,000 by the end of 2025?",
      "Will the Chiefs win the Super Bowl?",
      "Will the Lakers win and cover the spread?",
      "Will the Fed cut the interest rate in March?",
      "Will aliens land in Ohio?",
      "Will AAPL stock close above $200?" }

QuestionAnalyzer ==
    [ question \in Questions |->
        [ analysis |-> analyze_question(question),
          requirements |-> extract_data_requirements(question) ] ]

\* route_question, when no oracle is suitable: the response of lines 130-136.
no_suitable_oracle_response(category, base_confidence) ==
    [NoResponseFields EXCEPT
        !.reasoning = "No oracle supports " \o category
                          \o " data with your requirements",
        !.confidence_score = base_confidence,
        !.data_type = {category}]

\* route_question, once an oracle is selected: the response of lines 138-170.
selected_oracle_response(suitable_oracles, selection, category, requirements, base_confidence) ==
    LET selected_oracle == Val(selection.oracle)
        capabilities == ORACLE_CAPABILITIES[selected_oracle]
        final_confidence ==
            Min(base_confidence
                  + calculate_confidence_boost(selected_oracle, category, requirements),
                100)
    IN  [ can_resolve |-> TRUE,
          selected_oracle |-> {selected_oracle},
          reasoning |-> selection.reasoning,
          oracle_config |->
              {build_oracle_config(selected_oracle, category, requirements)},
          alternatives |->
              IF Len(suitable_oracles) > 1
              THEN {SubSeq(suitable_oracles, 2, Min(3, Len(suitable_oracles)))}
              ELSE {},
          data_type |-> {category},
          required_feeds |-> {requirements.assets},
          estimated_cost_usd |-> {capabilities.cost_usd},
          estimated_latency_ms |-> {capabilities.latency_ms},
          confidence_score |-> final_confidence,
          resolution_method |-> {get_resolution_method(selected_oracle)},
          update_frequency |-> {capabilities.update_freq} ]

\* route_question's try/except: the response is returned if the response
\* model accepts its fields, and the error response of lines 172-178 if not.
returned_or_routing_error(fields) ==
    IF OracleRoutingResponse(fields) = {}
    THEN fields
    ELSE routing_error(validation_message("OracleRoutingResponse",
                                          OracleRoutingResponse(fields)))

\* route_question from the suitable oracles on (lines 130-178).
route_among(suitable_oracles, category, requirements, base_confidence) ==
    returned_or_routing_error(
        IF suitable_oracles = << >>
        THEN no_suitable_oracle_response(category, base_confidence)
        ELSE selected_oracle_response(
                 suitable_oracles,
                 select_best_oracle(suitable_oracles, category, requirements),
                 category, requirements, base_confidence))

\* RoutingEngine.route_question: the response it returns.
route_question(request) ==
    LET analysis == QuestionAnalyzer[request.question].analysis
        requirements == QuestionAnalyzer[request.question].requirements
        category == IF request.category_hint # {}
                    THEN Val(request.category_hint) ELSE analysis.category
        base_confidence == IF request.category_hint # {}
                           THEN Max(analysis.confidence, 80)
                           ELSE analysis.confidence
    IN  route_among(find_suitable_oracles(category, request.required_chains,
                                          request.max_latency_ms,
                                          request.max_cost_usd,
                                          request.preferred_providers),
                    category, requirements, base_confidence)

\* EnhancementService._should_enhance
should_enhance(request, response) ==
    \/ response.confidence_score < 70
    \/ any_in({" and ", " or ", " but ", " however ", " unless ", "multiple",
               "several", "various", "conditional"}, lower(request.question))
    \/ response.data_type # {} /\ Val(response.data_type) \in {"custom", "events"}
    \/ response.estimated_cost_usd # {} /\ Val(response.estimated_cost_usd) > 5000

\* AIEnhancementRequest: the model declares three fields, and a keyword that
\* names no field is dropped.
AIEnhancementRequest(kwargs) ==
    [ f \in DOMAIN kwargs \cap {"question", "current_oracle", "current_confidence"}
        |-> kwargs[f] ]

\* _build_enhancement_prompt reads four attributes of the request: the error
\* it raises, if any.
build_enhancement_prompt(ai_request) ==
    IF {"question", "current_oracle", "current_confidence", "current_reasoning"}
          \subseteq DOMAIN ai_request
    THEN {}
    ELSE {"AttributeError"}

\* EnhancementService._apply_enhancements
apply_enhancements(basic_response, ai_enhancement) ==
    LET enhanced_reasoning ==
            IF basic_response.reasoning # ""
                  /\ ai_enhancement.reasoning # basic_response.reasoning
            THEN ai_enhancement.reasoning \o " (Enhanced from: "
                     \o basic_response.reasoning \o ")"
            ELSE ai_enhancement.reasoning
        enhanced_confidence ==
            Min(basic_response.confidence_score + ai_enhancement.confidence_boost,
                100)
        oracle_config ==
            IF {ai_enhancement.oracle} # basic_response.selected_oracle
                  /\ basic_response.oracle_config # {}
            THEN {[Val(basic_response.oracle_config) EXCEPT
                      !.provider = ai_enhancement.oracle]}
            ELSE basic_response.oracle_config
    IN  [ can_resolve |-> TRUE,
          selected_oracle |-> {ai_enhancement.oracle},
          reasoning |-> enhanced_reasoning,
          oracle_config |-> oracle_config,
          alternatives |-> basic_response.alternatives,
          data_type |-> {ai_enhancement.data_type},
          required_feeds |-> IF ai_enhancement.feeds # {}
                             THEN {ai_enhancement.feeds}
                             ELSE basic_response.required_feeds,
          estimated_cost_usd |-> basic_response.estimated_cost_usd,
          estimated_latency_ms |-> basic_response.estimated_latency_ms,
          confidence_score |-> enhanced_confidence,
          resolution_method |-> basic_response.resolution_method,
          update_frequency |-> basic_response.update_frequency ]

\* What the LLM endpoint gives back: no connection, a status other than 200,
\* content that is not JSON of the schema, or a valid AIEnhancementResponse.
AIAnswers ==
    [ oracle : {"chainlink", "uma", "dia"},
      data_type : {"price", "sports"},
      feeds : {{}},
      reasoning : {"LLM analysis"},
      confidence_boost : {20, 50} ]

NoAnswer ==
    [ oracle |-> "chainlink", data_type |-> "price", feeds |-> {},
      reasoning |-> "", confidence_boost |-> 0 ]

LLMReplies ==
    { [kind |-> k, answer |-> NoAnswer] : k \in {"unreachable", "status", "invalid"} }
    \cup { [kind |-> "valid", answer |-> a] :
              a \in { x \in AIAnswers : x.oracle = "uma" /\ x.confidence_boost = 20 } }

\* EnhancementService._enhance_with_ai: the response returned, or the error
\* raised.
enhance_with_ai(request, basic_response, reply) ==
    LET ai_request ==
            AIEnhancementRequest(
                [ question |-> request.question,
                  current_oracle |-> basic_response.selected_oracle,
                  current_confidence |-> basic_response.confidence_score,
                  current_reasoning |-> basic_response.reasoning ])
        prompt_error == build_enhancement_prompt(ai_request)
    IN  IF prompt_error # {}
        THEN [raised |-> prompt_error, response |-> basic_response]
        ELSE CASE reply.kind = "unreachable" ->
                    [raised |-> {"ConnectError"}, response |-> basic_response]
               [] reply.kind = "invalid" ->
                    [raised |-> {"ValidationError"}, response |-> basic_response]
               [] reply.kind = "status" ->
                    [raised |-> {}, response |-> basic_response]
               [] reply.kind = "valid" ->
                    [raised |-> {},
                     response |-> apply_enhancements(basic_response, reply.answer)]

\* An enhancement whose failure leaves the call as an exception, with no
\* response.
enhance_if_needed_reraises(request, api_key, reply, basic_response) ==
    LET tried == should_enhance(request, basic_response) /\ api_key
        enhanced == enhance_with_ai(request, basic_response, reply)
    IN  [ basic |-> basic_response,
          tried |-> tried,
          failed |-> IF tried THEN enhanced.raised ELSE {},
          raised |-> IF tried THEN enhanced.raised ELSE {},
          response |-> IF tried /\ enhanced.raised = {}
                       THEN enhanced.response
                       ELSE IF tried THEN NoResponseFields ELSE basic_response ]

\* route_with_ai_enhancement after the rule-based routing (lines 37-47): the
\* rule-based response, the response returned, whether the enhancement was
\* tried and failed, and the exception that leaves the call (none: the
\* handler of lines 45-47 catches every Exception and returns the rule-based
\* response).
enhance_if_needed(request, api_key, reply, basic_response) ==
    LET tried == should_enhance(request, basic_response) /\ api_key
        enhanced == enhance_with_ai(request, basic_response, reply)
    IN  [ basic |-> basic_response,
          tried |-> tried,
          failed |-> IF tried THEN enhanced.raised ELSE {},
          raised |-> {},
          response |-> IF tried /\ enhanced.raised = {}
                       THEN enhanced.response ELSE basic_response ]

\* EnhancementService.route_with_ai_enhancement
route_with_ai_enhancement(request, api_key, reply) ==
    enhance_if_needed(request, api_key, reply, route_question(request))

\* The requests a caller makes: the keyword arguments of OracleRoutingRequest.
Requests ==
    [ question : Questions,
      category_hint : {{}, {"price"}, {"sports"}, {"custom"}},
      required_chains : {{}, {<< "Solana" >>}, {<< "Ethereum", "BNB" >>}},
      max_latency_ms : {{}, {0}, {600}},
      max_cost_usd : {{}, {0}, {5}, {40}},
      preferred_providers : {{}, {<< >>}, {<< "chainlink" >>}} ]

NoRouted == [basic |-> NoResponseFields, tried |-> FALSE, failed |-> {},
             raised |-> {}, response |-> NoResponseFields]

NoMerged == [answer |-> NoAnswer, response |-> NoResponseFields]

RouteInitWith(request, api_key) ==
    /\ req = [fields |-> request, api_key |-> api_key, raised |-> {},
              llm |-> "none"]
    /\ reqPc = "new"
    /\ routed = NoRouted
    /\ merged = NoMerged

RouteInit == \E request \in Requests, api_key \in BOOLEAN :
                RouteInitWith(request, api_key)

RouteIdle ==
    RouteInitWith([ question |-> "Will aliens land in Ohio?", category_hint |-> {},
                    required_chains |-> {}, max_latency_ms |-> {},
                    max_cost_usd |-> {}, preferred_providers |-> {} ], FALSE)

\* The caller builds the OracleRoutingRequest: pydantic validates the fields
\* and raises ValidationError to the caller if one fails.
Construct ==
    /\ reqPc = "new"
    /\ LET errors == OracleRoutingRequest(req.fields)
       IN  /\ req' = [req EXCEPT !.raised = IF errors = {} THEN {}
                                            ELSE {"ValidationError"}]
           /\ reqPc' = IF errors = {} THEN "built" ELSE "rejected"
    /\ UNCHANGED <<now, routed, merged, cbVars, rtVars, httpVars, rlVars, memVars, fileVars, adVars, llmVars, aggVars, schemaVars, configVars, arlVars>>

\* await service.route_with_ai_enhancement(request); req.llm keeps the state
\* the LLM endpoint was in when the call went on to the enhancement.
Route(reply) ==
    /\ reqPc = "built"
    /\ routed' = route_with_ai_enhancement(req.fields, req.api_key, reply)
    /\ req' = [req EXCEPT !.llm = IF routed'.tried THEN reply.kind ELSE "none"]
    /\ reqPc' = "routed"
    /\ UNCHANGED <<now, merged, cbVars, rtVars, httpVars, rlVars, memVars, fileVars, adVars, llmVars, aggVars, schemaVars, configVars, arlVars>>

\* _apply_enhancements(basic_response, ai_enhancement) on the rule-based
\* response and a schema-valid answer.
ApplyEnhancements(ai_enhancement) ==
    /\ reqPc = "routed"
    /\ merged' = [answer |-> ai_enhancement,
                  response |-> apply_enhancements(routed.basic, ai_enhancement)]
    /\ reqPc' = "merged"
    /\ UNCHANGED <<now, req, routed, cbVars, rtVars, httpVars, rlVars, memVars, fileVars, adVars, llmVars, aggVars, schemaVars, configVars, arlVars>>

NextRoute ==
    \/ Construct
    \/ \E reply \in LLMReplies : Route(reply)
    \/ \E ai_enhancement \in AIAnswers : ApplyEnhancements(ai_enhancement)

\* The responses the last call produced.
Produced ==
    (IF reqPc \in {"routed", "merged"} THEN {routed.basic, routed.response} ELSE {})
    \cup (IF reqPc = "merged" THEN {merged.response} ELSE {})

\* C1: every response with can_resolve = true, from the rule-based engine or
\* from the enhancement merge, names a selected oracle whose entry in the
\* capability table lists the response's data_type.
C1_ResolvedOracleSupportsDataType ==
    \A r \in Produced :
        r.can_resolve =>
            /\ r.selected_oracle # {}
            /\ r.data_type # {}
            /\ Val(r.selected_oracle) \in DOMAIN ORACLE_CAPABILITIES
            /\ Val(r.data_type) \in ORACLE_CAPABILITIES[Val(r.selected_oracle)].categories

\* The category the request is routed under, and whether some oracle of the
\* table satisfies every constraint the request gives.
RequestCategory ==
    IF req.fields.category_hint # {} THEN Val(req.fields.category_hint)
    ELSE QuestionAnalyzer[req.fields.question].analysis.category

Satisfies(provider) ==
    LET capabilities == ORACLE_CAPABILITIES[provider]
        f == req.fields
    IN  /\ RequestCategory \in capabilities.categories
        /\ f.max_cost_usd # {} => capabilities.cost_usd <= Val(f.max_cost_usd)
        /\ f.max_latency_ms # {} => capabilities.latency_ms <= Val(f.max_latency_ms)
        /\ TruthyList(f.preferred_providers)
              => provider \in SeqToSet(Val(f.preferred_providers))
        /\ TruthyList(f.required_chains)
              => \E chain \in SeqToSet(Val(f.required_chains)) :
                    lower(chain) \in capabilities.chains

Unsatisfiable == \A provider \in DOMAIN ORACLE_CAPABILITIES : ~Satisfies(provider)

\* C2: a request whose constraints no oracle satisfies (max_cost_usd = 0, for
\* one) is answered with can_resolve = false and the fixed reasoning for its
\* category, and no exception reaches the caller.
C2_UnsatisfiableIsAnsweredNotRaised ==
    Unsatisfiable /\ reqPc # "new" =>
        /\ req.raised = {}
        /\ reqPc \in {"routed", "merged"} =>
              /\ routed.response.can_resolve = FALSE
              /\ routed.response.reasoning =
                    "No oracle supports " \o RequestCategory
                        \o " data with your requirements"

\* C2 as amended: a request that pydantic accepts and whose constraints no
\* oracle satisfies (max_cost_usd = 0.05, for one) is answered with
\* can_resolve = false and the fixed reasoning for its category, and raises
\* nothing; a request with max_cost_usd = 0 or max_latency_ms = 0 is rejected
\* with a ValidationError when it is built and is never routed.
ZeroConstraint == req.fields.max_cost_usd = {0} \/ req.fields.max_latency_ms = {0}

C2_ValidUnsatisfiableIsAnswered ==
    reqPc # "new" =>
        /\ ZeroConstraint <=> reqPc = "rejected"
        /\ ZeroConstraint <=> req.raised = {"ValidationError"}
        /\ ~ZeroConstraint => req.raised = {}
        /\ Unsatisfiable /\ reqPc \in {"routed", "merged"} =>
              /\ routed.response.can_resolve = FALSE
              /\ routed.response.selected_oracle = {}
              /\ routed.response.reasoning =
                    "No oracle supports " \o RequestCategory
                        \o " data with your requirements"

C2_Witness ==
    /\ Unsatisfiable
    /\ reqPc = "routed"
    /\ req.fields.max_cost_usd = {5}
    /\ req.fields.category_hint = {"price"}
    /\ routed.response.can_resolve = FALSE

\* C3: the BTC question with hint PRICE and no other constraint is answered
\* with can_resolve = true, PYTH, PRICE, BTC among the feeds, 100 ms, 0.10 USD
\* and a confidence of at least 0.85.
C3_BtcQuestionRoutesToPyth ==
    /\ reqPc \in {"routed", "merged"}
    /\ req.fields = [ question |-> "Will BTC exceed $100,000 by the end of 2025?",
                      category_hint |-> {"price"}, required_chains |-> {},
                      max_latency_ms |-> {}, max_cost_usd |-> {},
                      preferred_providers |-> {} ]
    => /\ routed.response.can_resolve
       /\ routed.response.selected_oracle = {"pyth"}
       /\ routed.response.data_type = {"price"}
       /\ routed.response.required_feeds # {}
       /\ "BTC" \in Val(routed.response.required_feeds)
       /\ routed.response.estimated_latency_ms = {100}
       /\ routed.response.estimated_cost_usd = {10}
       /\ routed.response.confidence_score >= 85

\* C19: when the enhancement is attempted and the LLM is unreachable, answers
\* with a status other than 200, or returns content that is not valid JSON of
\* the schema, route_with_ai_enhancement returns the rule-based response
\* unchanged and raises nothing.
C19_LlmFailureFallsBackToRuleBased ==
    (reqPc \in {"routed", "merged"} /\ routed.tried
        /\ req.llm \in {"unreachable", "status", "invalid"})
    => /\ routed.raised = {}
       /\ routed.response = routed.basic
       /\ routed.basic = route_question(req.fields)

C19_Witness ==
    /\ reqPc = "routed"
    /\ routed.tried
    /\ req.llm = "invalid"
    /\ routed.basic.can_resolve
    /\ routed.response = routed.basic

\* The candidate set of the request: the oracles of the capability table that
\* passed the filters of the rule-based step.
CandidateSet == { provider \in DOMAIN ORACLE_CAPABILITIES : Satisfies(provider) }

\* C20: the merge of a schema-valid LLM answer adopts the LLM's oracle only
\* if it is in the candidate set, and keeps the rule-based selection
\* otherwise.
C20_MergeAdoptsCandidatesOnly ==
    reqPc = "merged" =>
        merged.response.selected_oracle =
            IF merged.answer.oracle \in CandidateSet
            THEN {merged.answer.oracle}
            ELSE routed.basic.selected_oracle

\* C21: when the enhancement is attempted and the LLM returns the
\* schema-valid answer that selects UMA with confidence_boost 0.2, the
\* response returned selects UMA, has confidence min(1, basic confidence +
\* 0.2) (0.75 for a basic 0.55) and a reasoning that contains both the LLM's
\* reasoning and the rule-based one.
C21_ValidAnswerIsMerged ==
    (reqPc \in {"routed", "merged"} /\ routed.tried /\ req.llm = "valid")
    => /\ routed.response.selected_oracle = {"uma"}
       /\ routed.response.confidence_score
              = Min(routed.basic.confidence_score + 20, 100)
       /\ Contains(routed.response.reasoning, "LLM analysis")
       /\ Contains(routed.response.reasoning, routed.basic.reasoning)

----------------------------------------------------------------------------
(* utils/cache.py: MemoryCache *)

\* time.time(): seconds since the epoch, never zero.
time_time == now + Epoch

Keys == {"a", "b", "c"}
Values == {"v1", "v2"}

\* The ttl arguments of set: None, 0 and a positive number of seconds.
Ttls == {{}, {0}, {MaxTtl}}

EmptyDict == [key \in {} |-> {}]

dict_set(d, key, item) ==
    [k \in DOMAIN d \cup {key} |-> IF k = key THEN item ELSE d[k]]

dict_del(d, key) == [k \in DOMAIN d \ {key} |-> d[k]]

list_remove(l, key) == SelectSeq(l, LAMBDA x : x # key)

\* if key in self._access_order: remove(key); then append(key)
touch(access_order, key) == Append(list_remove(access_order, key), key)

MemoryCache(max_size, default_ttl) ==
    [ max_size     |-> max_size,
      default_ttl  |-> default_ttl,
      cache        |-> EmptyDict,
      access_order |-> << >> ]

\* entry['expires_at'] and time.time() > entry['expires_at']
expired(entry, t) ==
    TruthyNumber(entry.expires_at) /\ t > Val(entry.expires_at)

\* MemoryCache._remove_key: the cache afterwards.
remove_key(self, key) ==
    IF key \in DOMAIN self.cache
    THEN [self EXCEPT !.cache = dict_del(@, key),
                      !.access_order = list_remove(@, key)]
    ELSE self

\* MemoryCache._evict_lru
evict_lru_newest(self) ==
    IF self.access_order # << >>
    THEN remove_key(self, self.access_order[Len(self.access_order)])
    ELSE self

evict_lru(self) ==
    IF self.access_order # << >>
    THEN remove_key(self, self.access_order[1])
    ELSE self

\* MemoryCache.get: the cache afterwards and the value returned, if any.
memory_get(self, key, t) ==
    IF key \notin DOMAIN self.cache
    THEN [cache |-> self, result |-> {}]
    ELSE IF expired(self.cache[key], t)
    THEN [cache |-> remove_key(self, key), result |-> {}]
    ELSE [cache |-> [self EXCEPT !.access_order = touch(@, key),
                                 !.cache[key].hits = @ + 1],
          result |-> {self.cache[key].value}]

\* MemoryCache.set from line 91 on: the entry is stored and its key becomes
\* the most recently used.
memory_store(self, key, entry) ==
    [self EXCEPT !.cache = dict_set(@, key, entry),
                 !.access_order = touch(@, key)]

\* MemoryCache.set: the cache afterwards.  Of the entry, created_at,
\* last_accessed and size are written and never read by the cache (size only
\* by get_stats); the model keeps the fields the operations read.
memory_set(self, key, value, ttl, t) ==
    LET expires_at == IF ttl # {} THEN {t + Val(ttl)}
                      ELSE IF self.default_ttl # 0 THEN {t + self.default_ttl}
                      ELSE {}
        full == Cardinality(DOMAIN self.cache) >= self.max_size
                    /\ key \notin DOMAIN self.cache
        entry == [ value      |-> value,
                   expires_at |-> expires_at,
                   hits       |-> 0 ]
    IN  memory_store(IF full THEN evict_lru(self) ELSE self, key, entry)

\* MemoryCache.exists: the cache afterwards and the answer.
memory_exists(self, key, t) ==
    IF key \notin DOMAIN self.cache
    THEN [cache |-> self, result |-> FALSE]
    ELSE IF expired(self.cache[key], t)
    THEN [cache |-> remove_key(self, key), result |-> FALSE]
    ELSE [cache |-> self, result |-> TRUE]

\* MemoryCache.clear
memory_clear(self) ==
    [self EXCEPT !.cache = EmptyDict, !.access_order = << >>]

NoMemEvt == [op |-> "none", key |-> "a", result |-> {}, late |-> FALSE, evicted |-> {}]

MemInitWith(max_size, default_ttl) ==
    /\ mem = MemoryCache(max_size, default_ttl)
    /\ memOps = 0
    /\ memEvt = NoMemEvt
    /\ memRecent = << >>
    /\ memDeadline = [key \in Keys |-> {}]

MemInit == \E max_size \in 1..MaxSize, default_ttl \in {0, MaxTtl} :
              MemInitWith(max_size, default_ttl)

MemIdle == MemInitWith(1, 0)

\* The cache's clock moves on.
CacheTick == now < MaxCacheTime /\ Tick

\* What one operation leaves behind: the cache, the call, what it returned,
\* whether a value was returned after the deadline of the set that wrote it,
\* and the keys and deadlines of the entries that remain.
MemDone(op, key, cache, result, recent, deadline) ==
    /\ memOps < MaxCacheOps
    /\ mem' = cache
    /\ memOps' = memOps + 1
    /\ memEvt' = [op |-> op, key |-> key, result |-> result,
                  late |-> /\ op = "get"
                           /\ result # {}
                           /\ memDeadline[key] # {}
                           /\ time_time > Val(memDeadline[key]),
                  evicted |-> DOMAIN mem.cache \ DOMAIN cache]
    /\ memRecent' = SelectSeq(recent, LAMBDA k : k \in DOMAIN cache.cache)
    /\ memDeadline' = [k \in Keys |-> IF k \in DOMAIN cache.cache
                                      THEN deadline[k] ELSE {}]
    /\ UNCHANGED <<now, cbVars, rtVars, httpVars, rlVars, routeVars, fileVars, adVars, llmVars, aggVars, schemaVars, configVars, arlVars>>

\* The time until which a set at time t with this ttl may be read: ttl
\* seconds, or default_ttl seconds when no ttl is given and a default is
\* configured.
MemDeadline(ttl, t) ==
    IF ttl # {} THEN {t + Val(ttl)}
    ELSE IF mem.default_ttl # 0 THEN {t + mem.default_ttl}
    ELSE {}

\* await cache.get(key)
MemGetReturns(key, got) ==
    MemDone("get", key, got.cache, got.result,
            IF got.result # {} THEN touch(memRecent, key) ELSE memRecent,
            memDeadline)

MemGet(key) == MemGetReturns(key, memory_get(mem, key, time_time))

\* await cache.set(key, value, ttl)
MemSet(key, value, ttl) ==
    MemDone("set", key, memory_set(mem, key, value, ttl, time_time), {},
            touch(memRecent, key),
            [memDeadline EXCEPT ![key] = MemDeadline(ttl, time_time)])

\* await cache.delete(key)
MemDelete(key) ==
    MemDone("delete", key, remove_key(mem, key), {key} \cap DOMAIN mem.cache,
            memRecent, memDeadline)

\* await cache.exists(key)
MemExistsReturns(key, found) ==
    MemDone("exists", key, found.cache, {found.result}, memRecent, memDeadline)

MemExists(key) == MemExistsReturns(key, memory_exists(mem, key, time_time))

\* await cache.clear()
MemClear ==
    MemDone("clear", "a", memory_clear(mem), {}, memRecent, memDeadline)

NextMem ==
    \/ CacheTick
    \/ \E key \in Keys : MemGet(key)
    \/ \E key \in Keys, value \in Values, ttl \in Ttls : MemSet(key, value, ttl)
    \/ \E key \in Keys : MemDelete(key)
    \/ \E key \in Keys : MemExists(key)
    \/ MemClear

\* The memory backend's part of C12: no get returns a value later than the
\* deadline of the set that wrote it.
MemoryReadsNeverExpired == ~memEvt.late

----------------------------------------------------------------------------
(* utils/cache.py: FileCache.  The cache is a directory: every with-open,
   exists and unlink is an operation on it of its own, and the clients are
   the threads and processes that share the directory (FileCache never takes
   its lock, and the files are its only shared state). *)

FileKeys == {"a", "b"}

MiB == 1024 * 1024

\* file_path.stat().st_size of the pickled value
st_size(value) == IF value = "v1" THEN MiB ELSE 2 * MiB

FileCache(max_size_mb) ==
    [ max_size_bytes |-> max_size_mb * 1024 * 1024,
      cache_files    |-> EmptyDict,
      meta_files     |-> EmptyDict ]

\* FileCache.delete: both files are unlinked if they exist.
file_delete(self, key) ==
    [self EXCEPT !.cache_files = dict_del(@, key),
                 !.meta_files = dict_del(@, key)]

\* _cleanup_if_needed, lines 300-314: the entries whose metadata and value
\* file both exist.
cache_files(self) == DOMAIN self.meta_files \cap DOMAIN self.cache_files

RECURSIVE total_size(_, _)
total_size(self, keys) ==
    IF keys = {} THEN 0
    ELSE LET key == CHOOSE k \in keys : TRUE
         IN  self.meta_files[key].size + total_size(self, keys \ {key})

\* cache_files.sort(key=last_accessed): the orders the sort can give; entries
\* with equal last_accessed stay in the order glob listed them.
oldest_first(self) ==
    { order \in [1..Cardinality(cache_files(self)) -> cache_files(self)] :
        /\ \A i, j \in DOMAIN order : i # j => order[i] # order[j]
        /\ \A i, j \in DOMAIN order :
              i < j => self.meta_files[order[i]].last_accessed
                          <= self.meta_files[order[j]].last_accessed }

\* _cleanup_if_needed, lines 321-327: files are removed oldest first until the
\* total is at most 80% of the limit.
RECURSIVE remove_oldest(_, _, _, _)
remove_oldest(self, order, i, total) ==
    IF i > Len(order) THEN self
    ELSE IF (total - self.meta_files[order[i]].size) * 10 <= self.max_size_bytes * 8
    THEN file_delete(self, order[i])
    ELSE remove_oldest(file_delete(self, order[i]), order, i + 1,
                            total - self.meta_files[order[i]].size)

\* FileCache._cleanup_if_needed: the directories it can leave.
cleanup_if_needed(self) ==
    IF total_size(self, cache_files(self)) > self.max_size_bytes
    THEN { remove_oldest(self, order, 1, total_size(self, cache_files(self))) :
              order \in oldest_first(self) }
    ELSE { self }

IdleFilePc ==
    [ at |-> "idle", key |-> "a", value |-> "v1", ttl |-> {}, since |-> 0,
      meta |-> {}, got |-> {}, write |-> 0 ]

\* What the last get returned: nothing yet, a miss, or a value.
NoFileEvt ==
    [op |-> "none", key |-> "a", result |-> {}, late |-> FALSE, torn |-> FALSE]

FileInitWith(max_size_mb) ==
    /\ file = FileCache(max_size_mb)
    /\ filePc = [p \in Tasks |-> IdleFilePc]
    /\ fileEvt = NoFileEvt
    /\ fileWrites = << >>
    /\ fileOps = 0

\* A directory that two large values overflow, and the default of 100 MB.
FileInit == \E max_size_mb \in {2, 100} : FileInitWith(max_size_mb)

FileIdle == FileInitWith(100)

\* A client calls get, set, delete, exists or clear.
FileCall(p) ==
    /\ filePc[p].at = "idle"
    /\ fileOps < MaxFileOps
    /\ fileOps' = fileOps + 1

\* A call returns: the directory it leaves and what the caller gets.
FileReturn(p, directory, evt) ==
    /\ file' = directory
    /\ filePc' = [filePc EXCEPT ![p] = IdleFilePc]
    /\ fileEvt' = evt
    /\ UNCHANGED <<now, fileWrites, cbVars, rtVars, httpVars, rlVars, routeVars, memVars, adVars, llmVars, aggVars, schemaVars, configVars, arlVars>>

FileMiss(key) == [NoFileEvt EXCEPT !.op = "get", !.key = key]

\* FileCache.set, lines 223-224: the value file is written.
FileSetValue(p, key, value, ttl) ==
    /\ FileCall(p)
    /\ file' = [file EXCEPT !.cache_files =
                   dict_set(@, key, [value |-> value, write |-> Len(fileWrites) + 1])]
    /\ fileWrites' = Append(fileWrites, [done |-> FALSE, deadline |-> {}])
    /\ filePc' = [filePc EXCEPT ![p] =
                     [IdleFilePc EXCEPT !.at = "set_value", !.key = key,
                                        !.value = value, !.ttl = ttl,
                                        !.write = Len(fileWrites) + 1]]
    /\ UNCHANGED <<now, fileEvt, cbVars, rtVars, httpVars, rlVars, routeVars, memVars, adVars, llmVars, aggVars, schemaVars, configVars, arlVars>>

\* FileCache.set, lines 223-224 and 242-248: pickle.dump raises, and the
\* handler unlinks both files.
FileSetFails(p, key) ==
    /\ FileCall(p)
    /\ FileReturn(p, file_delete(file, key), fileEvt)

\* FileCache.set, lines 226-240: the metadata is built (stat of the value
\* file included) and written, then the directory is cleaned up; if the
\* value file is gone, stat raises and the handler unlinks both files.
FileSetMeta(p) ==
    /\ filePc[p].at = "set_value"
    /\ LET key == filePc[p].key
           ttl == filePc[p].ttl
           metadata ==
               [ key           |-> key,
                 last_accessed |-> time_time,
                 expires_at    |-> IF TruthyNumber(ttl)
                                   THEN {time_time + Val(ttl)} ELSE {},
                 hits          |-> 0,
                 size          |-> st_size(file.cache_files[key].value),
                 write         |-> filePc[p].write ]
       IN  IF key \notin DOMAIN file.cache_files
           THEN /\ file' = file_delete(file, key)
                /\ fileWrites' = fileWrites
           ELSE /\ file' \in cleanup_if_needed(
                               [file EXCEPT !.meta_files = dict_set(@, key, metadata)])
                /\ fileWrites' =
                      [fileWrites EXCEPT ![filePc[p].write] =
                          [ done |-> TRUE,
                            deadline |-> IF ttl # {} THEN {time_time + Val(ttl)}
                                         ELSE {} ]]
    /\ filePc' = [filePc EXCEPT ![p] = IdleFilePc]
    /\ fileEvt' = fileEvt
    /\ UNCHANGED <<now, fileOps, cbVars, rtVars, httpVars, rlVars, routeVars, memVars, adVars, llmVars, aggVars, schemaVars, configVars, arlVars>>

\* FileCache.get, lines 186-187: both files must exist.
FileGetExists(p, key) ==
    /\ FileCall(p)
    /\ IF key \in DOMAIN file.cache_files /\ key \in DOMAIN file.meta_files
       THEN /\ filePc' = [filePc EXCEPT ![p] =
                             [IdleFilePc EXCEPT !.at = "get_exists", !.key = key,
                                                !.since = time_time]]
            /\ UNCHANGED <<file, fileEvt, adVars, llmVars, aggVars, schemaVars, configVars, arlVars>>
       ELSE /\ filePc' = filePc
            /\ file' = file
            /\ fileEvt' = FileMiss(key)
    /\ UNCHANGED <<now, fileWrites, cbVars, rtVars, httpVars, rlVars, routeVars, memVars, adVars, llmVars, aggVars, schemaVars, configVars, arlVars>>

\* FileCache.get, lines 191-197: the metadata is read and the TTL checked; a
\* missing file raises, and the handler of line 212 deletes the key.
FileGetMeta(p) ==
    /\ filePc[p].at = "get_exists"
    /\ fileOps' = fileOps
    /\ LET key == filePc[p].key
       IN  IF key \notin DOMAIN file.meta_files
           THEN FileReturn(p, file_delete(file, key), FileMiss(key))
           ELSE IF expired(file.meta_files[key], time_time)
           THEN FileReturn(p, file_delete(file, key), FileMiss(key))
           ELSE /\ filePc' = [filePc EXCEPT ![p].at = "get_meta",
                                            ![p].meta = {file.meta_files[key]}]
                /\ UNCHANGED <<now, file, fileEvt, fileWrites, cbVars, rtVars, httpVars, rlVars, routeVars, memVars, adVars, llmVars, aggVars, schemaVars, configVars, arlVars>>

\* FileCache.get, lines 200-201: the value is loaded.
FileGetValue(p) ==
    /\ filePc[p].at = "get_meta"
    /\ fileOps' = fileOps
    /\ LET key == filePc[p].key
       IN  IF key \notin DOMAIN file.cache_files
           THEN FileReturn(p, file_delete(file, key), FileMiss(key))
           ELSE /\ filePc' = [filePc EXCEPT ![p].at = "get_value",
                                            ![p].got = {file.cache_files[key]}]
                /\ UNCHANGED <<now, file, fileEvt, fileWrites, cbVars, rtVars, httpVars, rlVars, routeVars, memVars, adVars, llmVars, aggVars, schemaVars, configVars, arlVars>>

\* The write whose value a get returns had a ttl and the get was called after
\* the ttl had passed.
ReadLate(got, since) ==
    /\ fileWrites[got.write].done
    /\ fileWrites[got.write].deadline # {}
    /\ since > Val(fileWrites[got.write].deadline)

\* FileCache.get, lines 204-210: the metadata read earlier is written back
\* with the access recorded, and the value returned.
FileGetTouch(p) ==
    /\ filePc[p].at = "get_value"
    /\ fileOps' = fileOps
    /\ LET key == filePc[p].key
           metadata == Val(filePc[p].meta)
           got == Val(filePc[p].got)
       IN  FileReturn(p,
                      [file EXCEPT !.meta_files =
                          dict_set(@, key, [metadata EXCEPT !.last_accessed = time_time,
                                                            !.hits = @ + 1])],
                      [ op |-> "get", key |-> key, result |-> {got.value},
                        late |-> ReadLate(got, filePc[p].since),
                        torn |-> got.write # metadata.write ])

\* FileCache.delete
FileDelete(p, key) ==
    /\ FileCall(p)
    /\ FileReturn(p, file_delete(file, key), fileEvt)

\* FileCache.exists: an expired key is deleted.
FileExists(p, key) ==
    /\ FileCall(p)
    /\ FileReturn(p,
                  IF /\ key \in DOMAIN file.cache_files
                     /\ key \in DOMAIN file.meta_files
                     /\ expired(file.meta_files[key], time_time)
                  THEN file_delete(file, key) ELSE file,
                  fileEvt)

\* FileCache.clear
FileClear(p) ==
    /\ FileCall(p)
    /\ FileReturn(p, [file EXCEPT !.cache_files = EmptyDict, !.meta_files = EmptyDict],
                  fileEvt)

NextFile ==
    \/ CacheTick
    \/ \E p \in Tasks, key \in FileKeys, value \in Values, ttl \in Ttls :
          FileSetValue(p, key, value, ttl)
    \/ \E p \in Tasks, key \in FileKeys : FileSetFails(p, key)
    \/ \E p \in Tasks : FileSetMeta(p)
    \/ \E p \in Tasks, key \in FileKeys : FileGetExists(p, key)
    \/ \E p \in Tasks : FileGetMeta(p)
    \/ \E p \in Tasks : FileGetValue(p)
    \/ \E p \in Tasks : FileGetTouch(p)
    \/ \E p \in Tasks, key \in FileKeys : FileDelete(p, key)
    \/ \E p \in Tasks, key \in FileKeys : FileExists(p, key)
    \/ \E p \in Tasks : FileClear(p)

\* C12: no get, of the memory cache or of the file cache, returns a value
\* that was written with a TTL of t seconds when it is called more than t
\* seconds after the write.
C12_NoReadReturnsExpired == ~memEvt.late /\ ~fileEvt.late

\* C13: every value a get of the file cache returns was written by the same
\* set as the metadata the get checked: a read sees all of the previous entry
\* or all of the new one.
C13_ReadsSeeOneWrite == ~fileEvt.torn


----------------------------------------------------------------------------
(* adapters/base_adapter.py: BaseOracleAdapter.query and
   OracleAdapterRegistry.query_best_adapter *)

\* The adapters of the package, in the order they are registered:
\* ChainlinkAdapter, PythAdapter, CustomOracleAdapter, TwitterOracleAdapter.
AdapterNames == << "chainlink", "pyth", "custom-oracle", "twitter-oracle" >>

Adapters == SeqToSet(AdapterNames)

get_supported_data_types(name) ==
    CASE name = "chainlink"      -> {"price", "weather", "sports"}
      [] name = "pyth"           -> {"price"}
      [] name = "custom-oracle"  -> {"custom", "news", "social"}
      [] name = "twitter-oracle" -> {"social", "news"}

BaseOracleAdapter(name, stats) ==
    [ name                 |-> name,
      supported_data_types |-> get_supported_data_types(name),
      stats                |-> stats ]

NewStats == [requests |-> 0, errors |-> 0, total_latency |-> 0, last_error |-> {}]

\* BaseOracleAdapter._validate_request: the ValueError it raises, if any.
validate_request(self, request) ==
    IF request.query = ""
    THEN {"Query cannot be empty"}
    ELSE IF request.data_type \notin self.supported_data_types
    THEN {"Unsupported data type: DataType." \o upper(request.data_type)}
    ELSE {}

\* int((time.time() - start_time) * 1000)
latency_ms(start_time, t) == (t - start_time) * 1000

\* BaseOracleAdapter.query, lines 128-140: the provider returned data; the
\* confidence is that of the base class's _calculate_confidence.
query_returns(self, start_time, data, t) ==
    [ adapter  |-> [self EXCEPT !.stats.total_latency =
                                    @ + latency_ms(start_time, t)],
      raised   |-> {},
      response |-> {[ data       |-> data,
                      provider   |-> self.name,
                      timestamp  |-> t,
                      confidence |-> IF data # {} THEN 100 ELSE 0,
                      latency_ms |-> latency_ms(start_time, t),
                      error      |-> {} ]} ]

\* A query whose error response carries data and full confidence.
query_except_keeps_data(self, start_time, message, t) ==
    [ adapter  |-> [self EXCEPT !.stats.errors = @ + 1,
                                !.stats.last_error = {message}],
      raised   |-> {},
      response |-> {[ data       |-> {"stale"},
                      provider   |-> self.name,
                      timestamp  |-> t,
                      confidence |-> 100,
                      latency_ms |-> latency_ms(start_time, t),
                      error      |-> {message} ]} ]

\* BaseOracleAdapter.query, lines 142-155: an Exception was caught; message
\* is str(e).
query_except(self, start_time, message, t) ==
    [ adapter  |-> [self EXCEPT !.stats.errors = @ + 1,
                                !.stats.last_error = {message}],
      raised   |-> {},
      response |-> {[ data       |-> {},
                      provider   |-> self.name,
                      timestamp  |-> t,
                      confidence |-> 0,
                      latency_ms |-> latency_ms(start_time, t),
                      error      |-> {message} ]} ]

\* BaseOracleAdapter.query when the task is cancelled inside wait_for:
\* CancelledError derives from BaseException, no handler of query catches it.
query_cancelled(self) ==
    [ adapter |-> self, raised |-> {"CancelledError"}, response |-> {} ]

\* BaseOracleAdapter.query, lines 115-120: the request is counted and
\* validated.
query_entry(self) == [self EXCEPT !.stats.requests = @ + 1]

\* get_stats()['success_rate'] of a is greater than that of b:
\* (1 - errors / max(1, requests)) * 100, compared exactly.
higher_success_rate(a, b) ==
    a.stats.errors * Max(1, b.stats.requests)
        < b.stats.errors * Max(1, a.stats.requests)

\* get_stats()['avg_latency_ms'] of a is less than that of b:
\* total_latency / max(1, requests), 0 before the first request.
lower_avg_latency(a, b) ==
    a.stats.total_latency * Max(1, b.stats.requests)
        < b.stats.total_latency * Max(1, a.stats.requests)

\* The sort key (success_rate, -avg_latency_ms) of a is greater than b's.
key_greater(a, b) ==
    \/ higher_success_rate(a, b)
    \/ ~higher_success_rate(b, a) /\ lower_avg_latency(a, b)

\* A sort that puts the smallest key first.
RECURSIVE sort_adapters_ascending(_, _)
sort_adapters_ascending(adapters, names) ==
    IF names = << >> THEN << >>
    ELSE LET first == CHOOSE i \in 1..Len(names) :
                /\ \A j \in 1..Len(names) :
                      ~key_greater(adapters[names[i]], adapters[names[j]])
                /\ \A j \in 1..(i - 1) :
                      key_greater(adapters[names[j]], adapters[names[i]])
         IN  << names[first] >>
               \o sort_adapters_ascending(adapters,
                      SubSeq(names, 1, first - 1)
                        \o SubSeq(names, first + 1, Len(names)))

\* available_adapters.sort(key=..., reverse=True): greatest key first, equal
\* keys in the order they had.
RECURSIVE sort_adapters(_, _)
sort_adapters(adapters, names) ==
    IF names = << >> THEN << >>
    ELSE LET first == CHOOSE i \in 1..Len(names) :
                /\ \A j \in 1..Len(names) :
                      ~key_greater(adapters[names[j]], adapters[names[i]])
                /\ \A j \in 1..(i - 1) :
                      key_greater(adapters[names[i]], adapters[names[j]])
         IN  << names[first] >>
               \o sort_adapters(adapters,
                      SubSeq(names, 1, first - 1)
                        \o SubSeq(names, first + 1, Len(names)))

\* OracleAdapterRegistry.get_adapters_for_data_type
get_adapters_for_data_type(adapters, data_type) ==
    SelectSeq(AdapterNames,
              LAMBDA name : /\ name \in DOMAIN adapters
                            /\ data_type \in adapters[name].supported_data_types)

\* query_best_adapter, lines 297-308: the adapters to try, in order.
adapters_to_try(adapters, available_adapters, preferred_adapters) ==
    sort_adapters(adapters,
        IF TruthyList(preferred_adapters)
        THEN SelectSeq(available_adapters,
                       LAMBDA name : name \in SeqToSet(Val(preferred_adapters)))
        ELSE available_adapters)

\* str(None) or the message
str(last_error) == IF last_error = {} THEN "None" ELSE Val(last_error)

\* query_best_adapter, lines 310-329, from the adapters still to try: each is
\* queried; one whose request is invalid answers at once with an error and
\* the loop goes on, one whose request is valid suspends in wait_for, and
\* when none is left the "failed" response is returned.
RECURSIVE try_adapters(_, _, _, _, _, _, _)
try_adapters(adapters, rest, request, last_error, tried, answered, t) ==
    IF rest = << >>
    THEN [ registry |-> adapters, awaiting |-> {}, rest |-> rest,
           last_error |-> last_error, tried |-> tried, answered |-> answered,
           response |-> {[ data       |-> {},
                           provider   |-> "failed",
                           timestamp  |-> t,
                           confidence |-> 0,
                           latency_ms |-> 0,
                           error      |-> {"All adapters failed. Last error: "
                                             \o str(last_error)} ]} ]
    ELSE IF validate_request(adapters[Head(rest)], request) # {}
    THEN try_adapters(
             [adapters EXCEPT ![Head(rest)] =
                 query_except(query_entry(@), t,
                              Val(validate_request(@, request)), t).adapter],
             Tail(rest), request, validate_request(adapters[Head(rest)], request),
             Append(tried, Head(rest)),
             query_except(query_entry(adapters[Head(rest)]), t,
                          Val(validate_request(adapters[Head(rest)], request)),
                          t).response,
             t)
    ELSE [ registry |-> [adapters EXCEPT ![Head(rest)] = query_entry(@)],
           awaiting |-> {Head(rest)}, rest |-> Tail(rest),
           last_error |-> last_error, tried |-> Append(tried, Head(rest)),
           answered |-> answered, response |-> {} ]

\* query_best_adapter, lines 286-295: no adapter supports the data type.
no_adapters_response(request, t) ==
    [ data       |-> {},
      provider   |-> "none",
      timestamp  |-> t,
      confidence |-> 0,
      latency_ms |-> 0,
      error      |-> {"No adapters available for data type: DataType."
                        \o upper(request.data_type)} ]

\* The statistics an adapter can have when a call arrives: none yet, one
\* error in two requests, two slow successes.
StatsChoices ==
    { NewStats,
      [requests |-> 2, errors |-> 1, total_latency |-> 1000, last_error |-> {""}],
      [requests |-> 2, errors |-> 0, total_latency |-> 4000, last_error |-> {}] }

\* The requests and preferences callers pass.
OracleRequests ==
    { [query |-> "", data_type |-> "price", timeout |-> 1],
      [query |-> "BTC/USD", data_type |-> "price", timeout |-> 1],
      [query |-> "BTC/USD", data_type |-> "news", timeout |-> 1] }

PreferredAdapters ==
    { {}, {<< >>}, {<< "twitter-oracle", "pyth" >>} }

\* What the provider call can return (None or data) and the messages of the
\* exceptions it can raise.
ProviderData == { {}, {"data"} }
ProviderErrors == { "connection reset" }

IdleAdPc ==
    [ at |-> "idle", mode |-> "query", adapter |-> "pyth",
      request |-> [query |-> "", data_type |-> "price", timeout |-> 1],
      preferred |-> {}, start_time |-> 0, rest |-> << >>, last_error |-> {},
      tried |-> << >>, seen |-> << >> ]

NoAdRes ==
    [ mode |-> "none", request |-> IdleAdPc.request, preferred |-> {},
      seen |-> << >>, tried |-> << >>, raised |-> {}, response |-> {} ]

NoAdEvt == [adapter |-> "pyth", cause |-> "none", raised |-> {}, response |-> {}]

AdapterInitWith(adapters) ==
    /\ registry = adapters
    /\ adPc = [task \in Tasks |-> IdleAdPc]
    /\ adRes = [task \in Tasks |-> NoAdRes]
    /\ adEvt = NoAdEvt
    /\ adOk = [name \in DOMAIN adapters |->
                  adapters[name].stats.requests - adapters[name].stats.errors]
    /\ adCalls = 0

AdapterInit ==
    \E stats \in StatsChoices :
        AdapterInitWith([name \in Adapters |->
                            BaseOracleAdapter(name,
                                IF name = "chainlink" THEN stats ELSE NewStats)])

AdapterIdle ==
    AdapterInitWith([name \in {"pyth"} |-> BaseOracleAdapter(name, NewStats)])

\* A caller awaits adapter.query or registry.query_best_adapter.
AdCall(task) ==
    /\ adPc[task].at = "idle"
    /\ adCalls < MaxQueries
    /\ adCalls' = adCalls + 1

\* The call of a task returns or raises.
AdResult(task, call, tried, raised, response) ==
    /\ adPc' = [adPc EXCEPT ![task] = IdleAdPc]
    /\ adRes' = [adRes EXCEPT ![task] =
                    [ mode |-> call.mode, request |-> call.request,
                      preferred |-> call.preferred, seen |-> call.seen,
                      tried |-> tried, raised |-> raised, response |-> response ]]

\* query_best_adapter goes on after a try: it is suspended in the next
\* adapter's wait_for, or it has returned.
AdTried(task, call, next) ==
    /\ registry' = next.registry
    /\ IF next.awaiting # {}
       THEN /\ adPc' = [adPc EXCEPT ![task] =
                           [call EXCEPT !.at = "awaiting",
                                        !.adapter = Val(next.awaiting),
                                        !.start_time = time_time,
                                        !.rest = next.rest,
                                        !.last_error = next.last_error,
                                        !.tried = next.tried]]
            /\ adRes' = adRes
       ELSE AdResult(task, call, next.tried, {}, next.response)

\* await adapter.query(request), up to the await of wait_for: self is the
\* adapter with the request counted, invalid what query answers if the
\* request fails validation.
AdQueryEntered(task, call, self, invalid) ==
    /\ IF validate_request(self, call.request) # {}
       THEN /\ registry' = [registry EXCEPT ![call.adapter] = invalid.adapter]
            /\ adEvt' = [ adapter |-> call.adapter, cause |-> "invalid",
                          raised |-> invalid.raised,
                          response |-> invalid.response ]
            /\ AdResult(task, call, << >>, invalid.raised, invalid.response)
       ELSE /\ registry' = [registry EXCEPT ![call.adapter] = self]
            /\ adPc' = [adPc EXCEPT ![task] = [call EXCEPT !.at = "awaiting"]]
            /\ UNCHANGED <<adEvt, adRes, llmVars, aggVars, schemaVars, configVars, arlVars>>
    /\ UNCHANGED <<now, adOk, cbVars, rtVars, httpVars, rlVars, routeVars, memVars, fileVars, llmVars, aggVars, schemaVars, configVars, arlVars>>

AdQuery(task, name, request) ==
    /\ AdCall(task)
    /\ name \in DOMAIN registry
    /\ AdQueryEntered(task,
                      [IdleAdPc EXCEPT !.mode = "query", !.adapter = name,
                                       !.request = request,
                                       !.start_time = time_time],
                      query_entry(registry[name]),
                      query_except(query_entry(registry[name]), time_time,
                          str(validate_request(query_entry(registry[name]), request)),
                          time_time))

\* await registry.query_best_adapter(request, preferred_adapters), up to the
\* first await that suspends or to its return.
AdBestTried(task, call, next) ==
    /\ AdTried(task, call, next)
    /\ adEvt' = IF next.answered # {}
                THEN [ adapter |-> Val(next.answered).provider, cause |-> "invalid",
                       raised |-> {}, response |-> next.answered ]
                ELSE adEvt

AdBestEntered(task, call, available_adapters) ==
    /\ IF available_adapters = << >>
       THEN /\ registry' = registry
            /\ adEvt' = adEvt
            /\ AdResult(task, call, << >>, {},
                        {no_adapters_response(call.request, time_time)})
       ELSE AdBestTried(task, call,
                        try_adapters(registry,
                                     adapters_to_try(registry, available_adapters,
                                                     call.preferred),
                                     call.request, {}, << >>, {}, time_time))
    /\ UNCHANGED <<now, adOk, cbVars, rtVars, httpVars, rlVars, routeVars, memVars, fileVars, llmVars, aggVars, schemaVars, configVars, arlVars>>

AdBest(task, request, preferred) ==
    /\ AdCall(task)
    /\ AdBestEntered(task,
                     [IdleAdPc EXCEPT !.mode = "best", !.request = request,
                                      !.preferred = preferred,
                                      !.seen = registry],
                     get_adapters_for_data_type(registry, request.data_type))

\* adapter.query comes out of wait_for: the provider returned or raised, the
\* timeout passed or the task was cancelled.  A query_best_adapter that got
\* an error response goes on to the next adapter.
AdFinished(task, call, cause, outcome) ==
    /\ adPc[task].at = "awaiting"
    /\ adEvt' = [ adapter |-> call.adapter, cause |-> cause,
                  raised |-> outcome.raised, response |-> outcome.response ]
    /\ adOk' = IF cause = "returned"
               THEN [adOk EXCEPT ![call.adapter] = @ + 1] ELSE adOk
    /\ IF call.mode = "best" /\ outcome.raised = {}
            /\ Val(outcome.response).error # {}
       THEN AdTried(task, call,
                    try_adapters([registry EXCEPT ![call.adapter] = outcome.adapter],
                                 call.rest, call.request,
                                 Val(outcome.response).error, call.tried, {},
                                 time_time))
       ELSE /\ registry' = [registry EXCEPT ![call.adapter] = outcome.adapter]
            /\ AdResult(task, call, call.tried, outcome.raised, outcome.response)
    /\ UNCHANGED <<now, adCalls, cbVars, rtVars, httpVars, rlVars, routeVars, memVars, fileVars, llmVars, aggVars, schemaVars, configVars, arlVars>>

Elapsed(task) == time_time - adPc[task].start_time

\* _execute_query returns before the timeout.
AdReturns(task, data) ==
    /\ adPc[task].at = "awaiting"
    /\ Elapsed(task) <= adPc[task].request.timeout
    /\ AdFinished(task, adPc[task], "returned",
                  query_returns(registry[adPc[task].adapter],
                                adPc[task].start_time, data, time_time))

\* _execute_query raises an Exception before the timeout.
AdRaises(task, message) ==
    /\ adPc[task].at = "awaiting"
    /\ Elapsed(task) <= adPc[task].request.timeout
    /\ AdFinished(task, adPc[task], "raised",
                  query_except(registry[adPc[task].adapter],
                               adPc[task].start_time, message, time_time))

\* wait_for raises TimeoutError, whose str() is empty.
AdTimeout(task) ==
    /\ adPc[task].at = "awaiting"
    /\ Elapsed(task) >= adPc[task].request.timeout
    /\ AdFinished(task, adPc[task], "timeout",
                  query_except(registry[adPc[task].adapter],
                               adPc[task].start_time, "", time_time))

\* The task is cancelled while it waits.
AdCancel(task) ==
    /\ adPc[task].at = "awaiting"
    /\ AdFinished(task, adPc[task], "cancelled",
                  query_cancelled(registry[adPc[task].adapter]))

\* adapter.reset_stats(), between any two steps of the queries in flight.
\* Resetting fresh statistics changes nothing.
reset_stats(self) == [self EXCEPT !.stats = NewStats]

AdResetStats(name) ==
    /\ name \in DOMAIN registry
    /\ registry[name].stats # NewStats
    /\ registry' = [registry EXCEPT ![name] = reset_stats(@)]
    /\ adOk' = [adOk EXCEPT ![name] = 0]
    /\ UNCHANGED <<now, adPc, adRes, adEvt, adCalls, cbVars, rtVars, httpVars, rlVars, routeVars, memVars, fileVars, llmVars, aggVars, schemaVars, configVars, arlVars>>

AdapterTick == now < MaxAdapterTime /\ Tick

NextAdapter ==
    \/ AdapterTick
    \/ \E task \in Tasks, name \in Adapters, request \in OracleRequests :
          AdQuery(task, name, request)
    \/ \E task \in Tasks, request \in OracleRequests, preferred \in PreferredAdapters :
          AdBest(task, request, preferred)
    \/ \E task \in Tasks, data \in ProviderData : AdReturns(task, data)
    \/ \E task \in Tasks, message \in ProviderErrors : AdRaises(task, message)
    \/ \E task \in Tasks : AdTimeout(task)
    \/ \E task \in Tasks : AdCancel(task)

\* The adapters under direct queries with reset_stats called at any moment.
NextAdapterStats ==
    \/ AdapterTick
    \/ \E task \in Tasks, name \in Adapters, request \in OracleRequests :
          AdQuery(task, name, request)
    \/ \E task \in Tasks, data \in ProviderData : AdReturns(task, data)
    \/ \E task \in Tasks, message \in ProviderErrors : AdRaises(task, message)
    \/ \E task \in Tasks : AdTimeout(task)
    \/ \E task \in Tasks : AdCancel(task)
    \/ \E name \in Adapters : AdResetStats(name)

\* C15: when the provider call of an adapter query raises or outlasts
\* request.timeout, query raises nothing and returns a response with error
\* set, data None and confidence 0.
C15_ProviderFailureIsAnswered ==
    adEvt.cause \in {"raised", "timeout"}
        => /\ adEvt.raised = {}
           /\ adEvt.response # {}
           /\ Val(adEvt.response).error # {}
           /\ Val(adEvt.response).data = {}
           /\ Val(adEvt.response).confidence = 0

C15_Witness ==
    /\ adEvt.cause = "timeout"
    /\ adEvt.response # {}
    /\ Val(adEvt.response).latency_ms > 0
    /\ registry[adEvt.adapter].stats.last_error = Val(adEvt.response).error

\* C16: an adapter query whose request is invalid (empty query, or a data
\* type the adapter does not support) raises ValidationError to the caller
\* and returns no response.
C16_InvalidRequestRaises ==
    adEvt.cause = "invalid"
        => /\ adEvt.raised = {"ValidationError"}
           /\ adEvt.response = {}

\* C17: once no query is in flight, every adapter's requests equal its
\* successes plus its errors, cancelled queries included.
C17_RequestsAreSuccessesPlusErrors ==
    (\A task \in Tasks : adPc[task].at = "idle")
        => \A name \in DOMAIN registry :
              registry[name].stats.requests
                  = adOk[name] + registry[name].stats.errors

\* get_stats()['success_rate'], in percent: true division, so the rate is
\* kept as the numerator over max(1, requests).
success_rate_in_range(self) ==
    LET requests == IF self.stats.requests > 1 THEN self.stats.requests ELSE 1
        hundred_times_successes == (requests - self.stats.errors) * 100
    IN  /\ hundred_times_successes >= 0
        /\ hundred_times_successes <= 100 * requests

\* C28: in every reachable state of an adapter, with several queries in
\* flight and reset_stats called between their start and their completion,
\* errors <= requests, and the success_rate of get_stats is within [0, 100].
C28_ErrorsAtMostRequests ==
    \A name \in DOMAIN registry :
        /\ registry[name].stats.errors <= registry[name].stats.requests
        /\ success_rate_in_range(registry[name])

\* The adapters query_best_adapter may use for a call: those registered when
\* it was called that support the data type and, when preferred names are
\* given, are among them.
Candidates(call) ==
    { name \in DOMAIN call.seen :
        /\ call.request.data_type \in call.seen[name].supported_data_types
        /\ TruthyList(call.preferred) => name \in SeqToSet(Val(call.preferred)) }

\* C18: a query_best_adapter call that returned has queried candidates only,
\* each once, by success rate descending and then average latency ascending
\* (as they were when it was called), skipping none; it stopped at the first
\* response without error, which it returned, or queried every candidate.
BestCallInOrder(call) ==
    /\ SeqToSet(call.tried) \subseteq Candidates(call)
    /\ \A i, j \in DOMAIN call.tried :
          i < j => /\ call.tried[i] # call.tried[j]
                   /\ ~key_greater(call.seen[call.tried[j]], call.seen[call.tried[i]])
    /\ \A skipped \in Candidates(call) \ SeqToSet(call.tried) :
          \A name \in SeqToSet(call.tried) :
              ~key_greater(call.seen[skipped], call.seen[name])
    /\ IF Val(call.response).error = {}
       THEN /\ call.tried # << >>
            /\ Val(call.response).provider = call.tried[Len(call.tried)]
       ELSE SeqToSet(call.tried) = Candidates(call)

C18_BestQueriesInOrderUntilSuccess ==
    \A task \in Tasks :
        (adRes[task].mode = "best" /\ adRes[task].raised = {})
            => BestCallInOrder(adRes[task])

C18_Witness ==
    \E task \in Tasks :
        /\ adRes[task].mode = "best"
        /\ adRes[task].tried = << "pyth", "chainlink" >>
        /\ adRes[task].response # {}
        /\ Val(adRes[task].response).error = {}
        /\ Val(adRes[task].response).provider = "chainlink"

----------------------------------------------------------------------------
(* ai/llm_providers.py: LLMRouter; ai/oracle_llm_integration.py *)

\* create_llm_router: the providers in the order it adds them, and the
\* priority it gives each.
LLMProviders == << "openai", "openrouter", "webllm" >>

priority(provider) ==
    CASE provider = "openai" -> 3
      [] provider = "openrouter" -> 2
      [] provider = "webllm" -> 1

\* LLMRouter.__init__: self.providers, a dict in insertion order.
LLMRouter(configured) ==
    SelectSeq(LLMProviders, LAMBDA provider : provider \in configured)

\* What the providers do during one call: the answer of the preferred
\* provider's is_available and whether its generate returns, then for every
\* provider the answer of is_available in get_available_providers and
\* whether its generate returns.  WebLLMProvider.is_available is False.
LLMEnvs ==
    { env \in [ pref_available : BOOLEAN, pref_generate : BOOLEAN,
                available : [SeqToSet(LLMProviders) -> BOOLEAN],
                generate : [SeqToSet(LLMProviders) -> BOOLEAN] ] :
        ~env.available["webllm"] }

\* LLMRouter.route_request, lines 654-667: the loop over sorted_providers.
RECURSIVE try_providers(_, _, _)
try_providers(sorted_providers, env, tried) ==
    IF sorted_providers = << >>
    THEN [ tried |-> tried, provider |-> {},
           raised |-> {"All providers failed"} ]
    ELSE IF env.generate[Head(sorted_providers)]
    THEN [ tried |-> Append(tried, Head(sorted_providers)),
           provider |-> {Head(sorted_providers)}, raised |-> {} ]
    ELSE try_providers(Tail(sorted_providers), env,
                       Append(tried, Head(sorted_providers)))

\* LLMRouter.route_request, lines 635-667: after the preferred provider.
route_by_priority(self, env, tried) ==
    IF SelectSeq(self, LAMBDA provider : env.available[provider]) = << >>
    THEN [ tried |-> tried, provider |-> {},
           raised |-> {"No LLM providers are currently available"} ]
    ELSE try_providers(
             SortSeq(SelectSeq(self, LAMBDA provider : env.available[provider]),
                     LAMBDA a, b : priority(a) > priority(b)),
             env, tried)

\* LLMRouter.route_request: the providers whose generate was awaited, in
\* order, the provider that answered and the exception raised.
route_request(self, preferred_provider, fallback, env) ==
    IF preferred_provider # {} /\ Val(preferred_provider) \in SeqToSet(self)
          /\ env.pref_available
    THEN IF env.pref_generate
         THEN [ tried |-> << Val(preferred_provider) >>,
                provider |-> preferred_provider, raised |-> {} ]
         ELSE IF ~fallback
         THEN [ tried |-> << Val(preferred_provider) >>, provider |-> {},
                raised |-> {"provider error"} ]
         ELSE route_by_priority(self, env, << Val(preferred_provider) >>)
    ELSE route_by_priority(self, env, << >>)

\* generate_json_response given what route_request did: content is the
\* answering provider's text, parsed by json.loads.
json_response(routed_request, content) ==
    IF routed_request.raised # {}
    THEN [raised |-> routed_request.raised, json |-> {}]
    ELSE IF ~content.json
    THEN [raised |-> {"ValueError"}, json |-> {}]
    ELSE [raised |-> {}, json |-> {content}]

\* OracleProvider of schemas/contract_json_schemas.py.
ContractOracleProviders == << "CHAINLINK", "PYTH", "UMA", "API3", "CUSTOM" >>

RoutingExampleReasoning ==
    "Chainlink is optimal for BTC price data due to its robust aggregation of multiple high-quality price feeds with proven reliability and sub-minute updates"

ResolutionExampleReasoning ==
    "Bitcoin price reached $105,000 on December 15, 2024, exceeding the $100k threshold. This was confirmed across multiple major exchanges with consistent pricing."

\* OracleRoutingResponse.model_validate of contract_json_schemas.py: whether
\* the JSON passes.  Confidences are in thousandths.
routing_response_valid(response_json) ==
    /\ response_json.selected_oracle \in SeqToSet(ContractOracleProviders)
    /\ Len(response_json.reasoning) >= 50
    /\ response_json.confidence \in 0..1000

\* select_optimal_oracle, lines 133-153, on the JSON the LLM gave.
validated_routing_response(provider_enums, response_json) ==
    IF routing_response_valid(response_json)
    THEN IF response_json.selected_oracle \notin SeqToSet(provider_enums)
         THEN [ selected_oracle |-> provider_enums[1],
                reasoning |-> response_json.reasoning
                    \o " (Fallback selection as original choice was unavailable)",
                confidence |-> (response_json.confidence * 8) \div 10,
                fallback_options |-> << >> ]
         ELSE [ selected_oracle |-> response_json.selected_oracle,
                reasoning |-> response_json.reasoning,
                confidence |-> response_json.confidence,
                fallback_options |-> << >> ]
    ELSE [ selected_oracle |-> provider_enums[1],
           reasoning |-> "Fallback selection due to parsing error: validation error for OracleRoutingResponse",
           confidence |-> 500,
           fallback_options |-> IF Len(provider_enums) > 1
                                THEN SubSeq(provider_enums, 2, Min(3, Len(provider_enums)))
                                ELSE << >> ]

\* select_optimal_oracle after the provider names are mapped (lines 74-153).
select_among(provider_enums, response) ==
    IF provider_enums = << >>
    THEN [raised |-> {"ValueError"}, response |-> {}]
    ELSE IF response.raised # {}
    THEN [raised |-> response.raised, response |-> {}]
    ELSE [raised |-> {},
          response |-> {validated_routing_response(provider_enums, Val(response.json))}]

\* OracleLLMIntegration.select_optimal_oracle
select_optimal_oracle(self, available_providers, content, env) ==
    select_among(SelectSeq([i \in DOMAIN available_providers |->
                               upper(available_providers[i])],
                           LAMBDA name : name \in SeqToSet(ContractOracleProviders)),
                 json_response(route_request(self, {}, TRUE, env), content))

\* PredictionMarketResolution.model_validate: whether the JSON passes.
resolution_valid(response_json) ==
    /\ response_json.winning_outcome \in 0..255
    /\ response_json.confidence \in 0..1000
    /\ Len(response_json.reasoning) >= 100

\* resolve_prediction_market, lines 230-250, on the JSON the LLM gave.
resolution_of(options, response_json) ==
    IF resolution_valid(response_json)
    THEN IF response_json.winning_outcome >= Len(options)
         THEN [ winning_outcome |-> 0,
                confidence |-> response_json.confidence \div 2,
                reasoning |-> response_json.reasoning
                                  \o " (Corrected invalid outcome index)" ]
         ELSE [ winning_outcome |-> response_json.winning_outcome,
                confidence |-> response_json.confidence,
                reasoning |-> response_json.reasoning ]
    ELSE [ winning_outcome |-> 0,
           confidence |-> 300,
           reasoning |-> "Could not parse resolution data properly: validation error for PredictionMarketResolution. Defaulting to first option." ]

\* OracleLLMIntegration.resolve_prediction_market given the JSON response.
resolve_with(options, response) ==
    IF response.raised # {}
    THEN [raised |-> response.raised, response |-> {}]
    ELSE [raised |-> {}, response |-> {resolution_of(options, Val(response.json))}]

resolve_prediction_market(self, options, content, env) ==
    resolve_with(options, json_response(route_request(self, {}, TRUE, env), content))

\* What the answering provider's text can be: not JSON, or a JSON object.
NotJson == [json |-> FALSE]

RoutingContents ==
    {NotJson} \cup
    [ json : {TRUE}, selected_oracle : {"CHAINLINK", "UMA", "BOGUS"},
      reasoning : {RoutingExampleReasoning, "Chainlink."},
      confidence : {920} ]

ResolutionContents ==
    {NotJson} \cup
    [ json : {TRUE}, winning_outcome : {0 - 1, 0, 1, 2, 256},
      reasoning : {ResolutionExampleReasoning, "BTC above $100k."},
      confidence : {980, 500} ]

ProviderLists == { << >>, << "bogus" >>, << "uma" >>, << "chainlink", "pyth" >> }
OptionLists == { << >>, << "Yes" >>, << "Yes", "No" >> }

NoLlmCall == [op |-> "none"]

LLMInitWith(configured) ==
    /\ router = LLMRouter(configured)
    /\ llmCall = NoLlmCall

LLMInit == \E configured \in (SUBSET SeqToSet(LLMProviders)) \ {{}} :
              LLMInitWith(configured)

LLMIdle == LLMInitWith({"openai"})

\* Without preference, what the providers do to the preferred one is not
\* looked at.
NoPreferenceEnvs ==
    { env \in LLMEnvs : ~env.pref_available /\ ~env.pref_generate }

LlmDone(call) ==
    /\ llmCall = NoLlmCall
    /\ llmCall' = call
    /\ UNCHANGED <<now, router, cbVars, rtVars, httpVars, rlVars, routeVars, memVars, fileVars, adVars, aggVars, schemaVars, configVars, arlVars>>

\* await router.route_request(request, preferred_provider, fallback)
LlmRoute(preferred_provider, fallback, env) ==
    LlmDone([ op |-> "route", preferred |-> preferred_provider,
              fallback |-> fallback, env |-> env,
              out |-> route_request(router, preferred_provider, fallback, env) ])

\* await integration.select_optimal_oracle(question, category, providers)
LlmSelect(available_providers, content, env) ==
    LlmDone([ op |-> "select", available_providers |-> available_providers,
              content |-> content, env |-> env,
              out |-> select_optimal_oracle(router, available_providers,
                                            content, env) ])

\* await integration.resolve_prediction_market(question, options, data, provider)
LlmResolve(options, content, env) ==
    LlmDone([ op |-> "resolve", options |-> options,
              content |-> content, env |-> env,
              out |-> resolve_prediction_market(router, options, content, env) ])

NextLLM ==
    \/ \E preferred_provider \in {{}} \cup {{p} : p \in SeqToSet(LLMProviders)},
          fallback \in BOOLEAN, env \in LLMEnvs :
          LlmRoute(preferred_provider, fallback, env)
    \/ \E available_providers \in ProviderLists, content \in RoutingContents,
          env \in NoPreferenceEnvs :
          LlmSelect(available_providers, content, env)
    \/ \E options \in OptionLists, content \in ResolutionContents,
          env \in NoPreferenceEnvs :
          LlmResolve(options, content, env)

\* The providers of the router that answer is_available with True, and
\* whether none of them returns from generate.
AvailableNow == { p \in SeqToSet(router) : llmCall.env.available[p] }

AllProvidersFail == \A p \in AvailableNow : ~llmCall.env.generate[p]

\* route_request tried the preferred provider first when it is registered
\* and available, then available providers by descending priority, and only
\* the last provider tried can be the one that answered.
TriedInOrder ==
    LET tried == llmCall.out.tried
        preferred_first ==
            llmCall.preferred # {} /\ Val(llmCall.preferred) \in SeqToSet(router)
                /\ llmCall.env.pref_available
        rest == IF preferred_first THEN Tail(tried) ELSE tried
    IN  /\ preferred_first => tried # << >> /\ Head(tried) = Val(llmCall.preferred)
        /\ SeqToSet(rest) \subseteq AvailableNow
        /\ \A i, j \in DOMAIN rest : i < j => priority(rest[i]) > priority(rest[j])
        /\ llmCall.out.provider # {}
              => Val(llmCall.out.provider) = tried[Len(tried)]
        /\ llmCall.out.provider = {} /\ (llmCall.fallback \/ ~preferred_first)
              => SeqToSet(rest) = AvailableNow

\* C22: route_request tries the preferred provider first and then the
\* available providers in descending priority, stopping at the first that
\* answers; and when every provider fails or none is available,
\* select_optimal_oracle, called with a valid oracle name, gives its caller
\* a result, not an exception.
C22_ProviderChainEndsInAResult ==
    /\ llmCall.op = "route" => TriedInOrder
    /\ (/\ llmCall.op = "select"
        /\ \E i \in DOMAIN llmCall.available_providers :
              upper(llmCall.available_providers[i]) \in SeqToSet(ContractOracleProviders)
        /\ AllProvidersFail)
       => llmCall.out.raised = {} /\ llmCall.out.response # {}

\* The LLM answered with JSON that passes the schema but for its index, and
\* the index is not one of the options.
LlmIndexOutOfRange ==
    /\ llmCall.content.json
    /\ Len(llmCall.content.reasoning) >= 100
    /\ llmCall.content.winning_outcome \notin 0..(Len(llmCall.options) - 1)

\* C23: every resolution resolve_prediction_market returns has
\* 0 <= winning_outcome < number of options; when the LLM's index is out of
\* that range the resolution has index 0, half of the LLM's confidence and
\* the LLM's reasoning followed by a suffix that tells of the correction.
C23_WinningOutcomeInRange ==
    (llmCall.op = "resolve" /\ llmCall.out.raised = {})
    => /\ Val(llmCall.out.response).winning_outcome \in 0..(Len(llmCall.options) - 1)
       /\ LlmIndexOutOfRange
             => /\ Val(llmCall.out.response).winning_outcome = 0
                /\ Val(llmCall.out.response).confidence * 2 = llmCall.content.confidence
                /\ Val(llmCall.out.response).reasoning
                      = llmCall.content.reasoning \o " (Corrected invalid outcome index)"

----------------------------------------------------------------------------
(* core/router.py: OpenOracleRouter.get_aggregated_data *)

\* OpenOracleRouter.get_oracle_data: the data point of a provider, given what
\* its feed delivers.  Only CHAINLINK and PYTH are in self.providers, and
\* PYTH answers price requests only.
get_oracle_data(provider, data_type, delivered) ==
    IF provider = "chainlink" \/ (provider = "pyth" /\ data_type = "price")
    THEN delivered ELSE {}

\* The median of lines 188-192; values is sorted.  The values of the model
\* are even numbers of cents, so the mean of the middle two is a whole
\* number.
median(values) ==
    IF Len(values) % 2 = 0
    THEN (values[Len(values) \div 2] + values[Len(values) \div 2 + 1]) \div 2
    ELSE values[Len(values) \div 2 + 1]

\* A check that also flags a spread of exactly 5%.
discrepancy_from_five_percent(values) ==
    IF values[Len(values)] > 0
    THEN (values[Len(values)] - values[1]) * 100 >= 5 * values[Len(values)]
    ELSE FALSE

\* Lines 195-197: (max_val - min_val) / max_val > 0.05 if max_val > 0 else
\* False; values is sorted.
discrepancy(values) ==
    IF values[Len(values)] > 0
    THEN (values[Len(values)] - values[1]) * 100 > 5 * values[Len(values)]
    ELSE FALSE

\* A confidence that a discrepancy lowers by 0.05 only.
aggregate_confidence_lowered_less(discrepancy_detected) ==
    IF ~discrepancy_detected THEN 95 ELSE 90

\* Line 206, in hundredths.
aggregate_confidence(discrepancy_detected) ==
    IF ~discrepancy_detected THEN 95 ELSE 80

\* Line 188: sorted([dp.value for dp in data_points]).
sorted_values(data_points) ==
    SortSeq([i \in DOMAIN data_points |-> data_points[i].value], <)

\* get_aggregated_data, lines 183-221, on the values of the data points
\* collected.  A non-numeric aggregate names the method "latest", which the
\* Literal of AggregatedOracleData.aggregation_method does not allow.
aggregate_of(data_points) ==
    IF data_points = << >>
    THEN [raised |-> {}, data |-> {}]
    ELSE IF \A i \in DOMAIN data_points : data_points[i].number
    THEN [raised |-> {},
          data |-> {[ aggregation_method |-> "median",
                      aggregated_value |-> median(sorted_values(data_points)),
                      confidence |->
                          aggregate_confidence(discrepancy(sorted_values(data_points))),
                      discrepancy_detected |->
                          discrepancy(sorted_values(data_points)) ]}]
    ELSE [raised |-> {"ValidationError"}, data |-> {}]

\* The values of the data points get_aggregated_data collects (lines
\* 167-181): delivered[i] is what the feed of the i-th provider delivers, if
\* anything.
collect(data_type, providers, delivered) ==
    LET fetched == [i \in DOMAIN providers |->
                       get_oracle_data(providers[i], data_type, delivered[i])]
        present == SelectSeq([i \in DOMAIN providers |-> i],
                             LAMBDA i : fetched[i] # {})
    IN  [i \in DOMAIN present |-> Val(fetched[present[i]])]

\* OpenOracleRouter.get_aggregated_data
get_aggregated_data(data_type, providers, delivered) ==
    aggregate_of(collect(data_type,
                         IF TruthyList(providers) THEN Val(providers)
                         ELSE IF data_type = "price"
                         THEN << "chainlink", "pyth" >>
                         ELSE << "chainlink" >>,
                         delivered))

\* What a feed delivers: nothing, a price in cents (a float), or for sports
\* a dict.
Prices == {0 - 2000, 0, 9500, 10000, 300000, 340000}
Deliveries(data_type) ==
    IF data_type = "price"
    THEN {{}} \cup {{[number |-> TRUE, value |-> v]} : v \in Prices}
    ELSE {{}, {[number |-> FALSE, value |-> 0]}}

AggProviderLists ==
    { {}, {<< >>}, {<< "pyth", "chainlink" >>}, {<< "chainlink", "uma", "pyth" >>},
      {<< "chainlink", "pyth", "chainlink" >>} }

NoAgg == [op |-> "none"]

AggIdle == agg = NoAgg

\* await router.get_aggregated_data(data_type, params, providers)
Aggregate(data_type, providers, delivered) ==
    /\ agg = NoAgg
    /\ agg' = [ op |-> "aggregate", data_type |-> data_type,
                values |-> collect(data_type,
                                   IF TruthyList(providers) THEN Val(providers)
                                   ELSE IF data_type = "price"
                                   THEN << "chainlink", "pyth" >>
                                   ELSE << "chainlink" >>,
                                   delivered),
                out |-> get_aggregated_data(data_type, providers, delivered) ]
    /\ UNCHANGED <<now, cbVars, rtVars, httpVars, rlVars, routeVars, memVars, fileVars, adVars, llmVars, schemaVars, configVars, arlVars>>

NextAgg ==
    \E data_type \in {"price", "sports"}, providers \in AggProviderLists :
        \E delivered \in [1..3 -> Deliveries(data_type)] :
            Aggregate(data_type, providers, delivered)

\* An aggregate was computed from at least two numeric values.
NumericAggregate ==
    /\ agg.op = "aggregate"
    /\ Len(agg.values) >= 2
    /\ \A i \in DOMAIN agg.values : agg.values[i].number
    /\ agg.out.raised = {} /\ agg.out.data # {}

AggValues == { agg.values[i].value : i \in DOMAIN agg.values }
MaxValue == CHOOSE v \in AggValues : \A w \in AggValues : w <= v
MinValue == CHOOSE v \in AggValues : \A w \in AggValues : v <= w

\* s > 0.05 for s = (max - min) / max, max # 0.
SpreadAboveFivePercent ==
    IF MaxValue > 0 THEN (MaxValue - MinValue) * 100 > 5 * MaxValue
    ELSE (MaxValue - MinValue) * 100 < 5 * MaxValue

\* C24: for every aggregate computed from at least two numeric values, with
\* s = (max - min) / max (max not zero), discrepancy_detected is true exactly
\* when s > 0.05, and the confidence is at most 0.8 when it is true.
C24_DiscrepancyIffSpreadAboveFivePercent ==
    (NumericAggregate /\ MaxValue # 0)
    => /\ Val(agg.out.data).discrepancy_detected <=> SpreadAboveFivePercent
       /\ Val(agg.out.data).discrepancy_detected
             => Val(agg.out.data).confidence <= 80

C24_Witness ==
    /\ NumericAggregate
    /\ Len(agg.values) = 3
    /\ MaxValue = 10000 /\ MinValue = 9500
    /\ ~Val(agg.out.data).discrepancy_detected

----------------------------------------------------------------------------
(* schemas/contract_json_schemas.py: RouteConfig, RouteResult *)

startswith(v, prefix) ==
    Len(v) >= Len(prefix) /\ SubSeq(v, 1, Len(prefix)) = prefix

ZeroAddress == "0x0000000000000000000000000000000000000000"

\* RouteConfig.validate_address: whether it raises ValueError.
route_config_address_error(v) ==
    ~startswith(v, "0x") \/ Len(v) # 42

\* RouteResult.validate_address: whether it raises ValueError.
route_result_address_error(v) ==
    v # ZeroAddress /\ (~startswith(v, "0x") \/ Len(v) # 42)

\* RouteConfig(provider=..., oracle_address=..., priority=..., max_cost=...,
\* is_active=...): the object, or the ValidationError of pydantic.
RouteConfig(fields) ==
    IF fields.provider \notin SeqToSet(ContractOracleProviders)
          \/ route_config_address_error(fields.oracle_address)
    THEN [schema |-> "RouteConfig", raised |-> {"ValidationError"}, fields |-> fields]
    ELSE [schema |-> "RouteConfig", raised |-> {}, fields |-> fields]

\* RouteResult(success=..., selected_provider=..., oracle_address=..., ...)
RouteResult(fields) ==
    IF fields.selected_provider \notin SeqToSet(ContractOracleProviders)
          \/ route_result_address_error(fields.oracle_address)
    THEN [schema |-> "RouteResult", raised |-> {"ValidationError"}, fields |-> fields]
    ELSE [schema |-> "RouteResult", raised |-> {}, fields |-> fields]

\* The address strings callers pass: the zero address, the address of the
\* schema's example in lower and in upper case, 40 characters that are not
\* hexadecimal digits, too few digits, 42 characters without the prefix, and
\* the empty string.
AddressStrings ==
    { ZeroAddress,
      "0x5f4ec3df9cbd43714fe2740f5e3616155c5b8419",
      "0x5F4EC3DF9CBD43714FE2740F5E3616155C5B8419",
      "0xzzzzzzzzzzzzzzzzzzzzzzzzzzzzzzzzzzzzzzzz",
      "0x5f4ec3df",
      "5f4ec3df9cbd43714fe2740f5e3616155c5b841900",
      "" }

ProviderStrings == SeqToSet(ContractOracleProviders) \cup {"BOGUS"}

NoBuilt == [schema |-> "none", raised |-> {}]

SchemaIdle == built = NoBuilt

Built(object) ==
    /\ built = NoBuilt
    /\ built' = object
    /\ UNCHANGED <<now, cbVars, rtVars, httpVars, rlVars, routeVars, memVars, fileVars, adVars, llmVars, aggVars, configVars, arlVars>>

BuildRouteConfig(fields) == Built(RouteConfig(fields))

BuildRouteResult(fields) == Built(RouteResult(fields))

NextSchema ==
    \/ \E fields \in [ provider : ProviderStrings, oracle_address : AddressStrings,
                       priority : {100}, max_cost : {0, 1000},
                       is_active : BOOLEAN ] :
          BuildRouteConfig(fields)
    \/ \E fields \in [ success : BOOLEAN, selected_provider : ProviderStrings,
                       oracle_address : AddressStrings,
                       estimated_cost : {0, 500}, reason : {"Best ratio"} ] :
          BuildRouteResult(fields)

\* /^0x[0-9a-fA-F]{40}$/
HexAddress(a) ==
    /\ Len(a) = 42
    /\ SubSeq(a, 1, 2) = "0x"
    /\ \A i \in 3..42 :
          \E j \in 1..22 : SubSeq(a, i, i) = SubSeq("0123456789abcdefABCDEF", j, j)

\* C26: every address string accepted by RouteConfig or RouteResult is the
\* all-zero address or 0x followed by exactly 40 hexadecimal digits.
C26_AcceptedAddressesAreHex ==
    (built.schema # "none" /\ built.raised = {})
    => \/ built.fields.oracle_address = ZeroAddress
       \/ HexAddress(built.fields.oracle_address)

----------------------------------------------------------------------------
(* core/config.py: OracleConfig *)

\* _get_default_providers, in the order of the dict: name, enabled,
\* timeout_seconds.
get_default_providers ==
    << [name |-> "chainlink", enabled |-> TRUE, timeout_seconds |-> 30],
       [name |-> "pyth", enabled |-> TRUE, timeout_seconds |-> 10],
       [name |-> "uma", enabled |-> TRUE, timeout_seconds |-> 60],
       [name |-> "band", enabled |-> TRUE, timeout_seconds |-> 30],
       [name |-> "api3", enabled |-> TRUE, timeout_seconds |-> 30] >>

\* _get_default_chains: name, chain_id, rpc_url.
get_default_chains ==
    << [name |-> "ethereum", chain_id |-> 1, rpc_url |-> "https://eth.llamarpc.com"],
       [name |-> "polygon", chain_id |-> 137, rpc_url |-> "https://polygon.llamarpc.com"],
       [name |-> "base", chain_id |-> 8453, rpc_url |-> "https://mainnet.base.org"] >>

\* The field defaults of the dataclass; None is the string "None".
OracleConfigDefaults ==
    [ base_url |-> "http://localhost:8000",
      openrouter_api_key |-> "None",
      openai_api_key |-> "None",
      enable_ai_routing |-> TRUE,
      providers |-> << >>,
      chains |-> << >> ]

\* __post_init__: empty providers and chains are replaced by the defaults.
post_init(self) ==
    [self EXCEPT !.providers = IF self.providers = << >> THEN get_default_providers ELSE @,
                 !.chains = IF self.chains = << >> THEN get_default_chains ELSE @]

\* OracleConfig(**kwargs): the keyword arguments override the field defaults.
OracleConfig(kwargs) ==
    post_init([f \in DOMAIN OracleConfigDefaults |->
                  IF f \in DOMAIN kwargs THEN kwargs[f] ELSE OracleConfigDefaults[f]])

TruthyKey(k) == k \notin {"None", ""}

RECURSIVE provider_issues(_)
provider_issues(providers) ==
    IF providers = << >> THEN << >>
    ELSE (IF Head(providers).enabled /\ Head(providers).timeout_seconds <= 0
          THEN << "Provider " \o Head(providers).name \o " has invalid timeout" >>
          ELSE << >>)
         \o provider_issues(Tail(providers))

RECURSIVE chain_issues(_)
chain_issues(chains) ==
    IF chains = << >> THEN << >>
    ELSE (IF Head(chains).rpc_url = ""
          THEN << "Chain " \o Head(chains).name \o " missing RPC URL" >>
          ELSE << >>)
         \o (IF Head(chains).chain_id <= 0
             THEN << "Chain " \o Head(chains).name \o " has invalid chain ID" >>
             ELSE << >>)
         \o chain_issues(Tail(chains))

\* OracleConfig.validate
validate(self) ==
    (IF self.base_url = "" THEN << "Base URL is required" >> ELSE << >>)
    \o (IF self.enable_ai_routing
           /\ ~(TruthyKey(self.openrouter_api_key) \/ TruthyKey(self.openai_api_key))
        THEN << "AI routing enabled but no AI API key provided" >>
        ELSE << >>)
    \o provider_issues(self.providers)
    \o chain_issues(self.chains)

\* The keyword arguments callers construct a configuration with: every subset
\* of the overrides below, the empty one being OracleConfig().
Overrides ==
    [ base_url |-> {"", "https://example.com"},
      openrouter_api_key |-> {"sk-or-test"},
      openai_api_key |-> {"", "sk-test"},
      enable_ai_routing |-> {FALSE},
      providers |-> { << [name |-> "chainlink", enabled |-> TRUE, timeout_seconds |-> 0] >>,
                      << [name |-> "chainlink", enabled |-> FALSE, timeout_seconds |-> 0],
                         [name |-> "pyth", enabled |-> TRUE, timeout_seconds |-> 10] >> },
      chains |-> { << [name |-> "ethereum", chain_id |-> 0, rpc_url |-> ""] >>,
                   << [name |-> "ethereum", chain_id |-> 1, rpc_url |-> ""] >> } ]

NoKwargs == [f \in {} |-> ""]

WithKeyword(kwargs_set, field) ==
    kwargs_set \cup { kw @@ [f \in {field} |-> value] :
                         kw \in kwargs_set, value \in Overrides[field] }

Kwargs ==
    WithKeyword(WithKeyword(WithKeyword(WithKeyword(WithKeyword(WithKeyword(
        {NoKwargs}, "base_url"), "openrouter_api_key"), "openai_api_key"),
        "enable_ai_routing"), "providers"), "chains")

NoConfig == [state |-> "none"]

ConfigIdle == cfg = NoConfig

ConfigUnchanged ==
    UNCHANGED <<now, cbVars, rtVars, httpVars, rlVars, routeVars, memVars, fileVars, adVars, llmVars, aggVars, schemaVars, arlVars>>

\* config = OracleConfig(**kwargs)
ConstructConfig(kwargs) ==
    /\ cfg.state = "none"
    /\ cfg' = [state |-> "built", kwargs |-> DOMAIN kwargs, config |-> OracleConfig(kwargs)]
    /\ ConfigUnchanged

\* config.<field> = value, as test_config_validation does with base_url
SetAttr(field, value) ==
    /\ cfg.state \in {"built", "validated"}
    /\ cfg.config[field] # value
    /\ cfg' = [state |-> "built", kwargs |-> cfg.kwargs \cup {field},
               config |-> [cfg.config EXCEPT ![field] = value]]
    /\ ConfigUnchanged

\* issues = config.validate()
Validate ==
    /\ cfg.state = "built"
    /\ cfg' = [cfg EXCEPT !.state = "validated"] @@ [issues |-> validate(cfg.config)]
    /\ ConfigUnchanged

NextConfig ==
    \/ \E kwargs \in Kwargs : ConstructConfig(kwargs)
    \/ \E value \in Overrides.base_url : SetAttr("base_url", value)
    \/ Validate

\* C27: a configuration constructed with all defaults validates with an empty
\* list of issues.
C27_DefaultsValidateClean ==
    (cfg.state = "validated" /\ cfg.kwargs = {}) => cfg.issues = << >>

----------------------------------------------------------------------------
(* utils/async_helpers.py: AsyncRateLimiter, with_rate_limit *)

AsyncRateLimiter(max_calls, time_window) ==
    [max_calls |-> max_calls, time_window |-> time_window, calls |-> << >>]

\* [call_time for call_time in self.calls if now - call_time < self.time_window]
IsRecent(self, t, call_time) == t - call_time < self.time_window

recent_calls(self, t) ==
    LET kept == { i \in DOMAIN self.calls : IsRecent(self, t, self.calls[i]) }
        position(k) == CHOOSE i \in kept : Cardinality({ j \in kept : j <= i }) = k
    IN  [k \in 1..Cardinality(kept) |-> self.calls[position(k)]]

\* min(self.calls)
oldest_call(calls) ==
    CHOOSE c \in SeqToSet(calls) : \A d \in SeqToSet(calls) : c <= d

\* acquire from taking the lock up to the sleep or the return: t is the now
\* of acquire.  wait_time is 0 when acquire does not sleep.
acquire_enter(self, t) ==
    LET kept == [self EXCEPT !.calls = recent_calls(self, t)]
        at_limit == Len(kept.calls) >= kept.max_calls
        wait_time == IF at_limit
                     THEN kept.time_window - (t - oldest_call(kept.calls))
                     ELSE 0
    IN  IF at_limit /\ wait_time > 0
        THEN [limiter |-> kept, wait_time |-> wait_time]
        ELSE [limiter |-> [kept EXCEPT !.calls = Append(@, t)], wait_time |-> 0]

\* acquire after the sleep: the oldest call is dropped and the call is
\* recorded with the now taken before the sleep.
acquire_after_sleep(self, t) ==
    [self EXCEPT !.calls = Append(Tail(@), t)]

ArlIdlePc == [at |-> "idle", now |-> 0, wake |-> 0]

ARLInitWith(max_calls, time_window) ==
    /\ arl = AsyncRateLimiter(max_calls, time_window)
    /\ arlLock = {}
    /\ arlPc = [t \in Tasks |-> ArlIdlePc]
    /\ arlGranted = << >>
    /\ arlAcquires = 0

ARLInit == \E m \in 1..MaxLimit, w \in 1..MaxWindow : ARLInitWith(m, w)

ARLIdle == ARLInitWith(1, 1)

ARLUnchanged ==
    UNCHANGED <<now, cbVars, rtVars, httpVars, rlVars, routeVars, memVars, fileVars, adVars, llmVars, aggVars, schemaVars, configVars>>

\* A task calls the wrapper of with_rate_limit, which awaits
\* rate_limiter.acquire(), and reaches `async with self.lock`.
ARLAcquire(t) ==
    /\ arlPc[t].at = "idle"
    /\ arlAcquires < MaxAcquires
    /\ arlAcquires' = arlAcquires + 1
    /\ arlPc' = [arlPc EXCEPT ![t].at = "acquiring"]
    /\ UNCHANGED <<arl, arlLock, arlGranted>>
    /\ ARLUnchanged

\* The lock is free: the task takes it, drops the old calls and either
\* records the call and returns, or sleeps with the lock held.
ARLEnter(t) ==
    /\ arlPc[t].at = "acquiring"
    /\ arlLock = {}
    /\ LET entered == acquire_enter(arl, now)
       IN  /\ arl' = entered.limiter
           /\ IF entered.wait_time > 0
              THEN /\ arlLock' = {t}
                   /\ arlPc' = [arlPc EXCEPT ![t] =
                                  [at |-> "sleeping", now |-> now,
                                   wake |-> now + entered.wait_time]]
                   /\ UNCHANGED arlGranted
              ELSE /\ arlPc' = [arlPc EXCEPT ![t] = ArlIdlePc]
                   /\ arlGranted' = Append(arlGranted, now)
                   /\ UNCHANGED arlLock
    /\ UNCHANGED arlAcquires
    /\ ARLUnchanged

\* The sleep is over: the call is recorded, the lock released, and acquire
\* returns.
ARLWake(t) ==
    /\ arlPc[t].at = "sleeping"
    /\ now >= arlPc[t].wake
    /\ arl' = acquire_after_sleep(arl, arlPc[t].now)
    /\ arlLock' = {}
    /\ arlPc' = [arlPc EXCEPT ![t] = ArlIdlePc]
    /\ arlGranted' = Append(arlGranted, now)
    /\ UNCHANGED arlAcquires
    /\ ARLUnchanged

\* The task is cancelled while it waits for the lock or sleeps: `async
\* with` releases the lock, and no call is recorded.
ARLCancel(t) ==
    /\ arlPc[t].at \in {"acquiring", "sleeping"}
    /\ arlLock' = arlLock \ {t}
    /\ arlPc' = [arlPc EXCEPT ![t] = ArlIdlePc]
    /\ UNCHANGED <<arl, arlGranted, arlAcquires>>
    /\ ARLUnchanged

NextARL ==
    \/ Tick
    \/ \E t \in Tasks : ARLAcquire(t)
    \/ \E t \in Tasks : ARLEnter(t)
    \/ \E t \in Tasks : ARLWake(t)
    \/ \E t \in Tasks : ARLCancel(t)

\* The calls that proceeded in the interval [s, s + time_window).
GrantedWithin(s) ==
    { i \in DOMAIN arlGranted :
        s <= arlGranted[i] /\ arlGranted[i] < s + arl.time_window }

\* C30: at most max_calls calls proceed within any interval of length
\* time_window, for any number of concurrent callers of acquire.
C30_AtMostMaxCallsPerWindow ==
    \A s \in 0..MaxTime : Cardinality(GrantedWithin(s)) <= arl.max_calls

----------------------------------------------------------------------------
(* Specifications: one per component, the other components at rest *)

InitCB == now = 0 /\ CBInit /\ RetryIdle /\ HttpIdle /\ RLIdle /\ RouteIdle /\ MemIdle /\ FileIdle /\ AdapterIdle /\ LLMIdle /\ AggIdle /\ SchemaIdle /\ ConfigIdle /\ ARLIdle
SpecCB == InitCB /\ [][NextCB]_vars

InitRetry == now = 0 /\ CBIdle /\ RetryInit /\ HttpIdle /\ RLIdle /\ RouteIdle /\ MemIdle /\ FileIdle /\ AdapterIdle /\ LLMIdle /\ AggIdle /\ SchemaIdle /\ ConfigIdle /\ ARLIdle
SpecRetry == InitRetry /\ [][NextRetry]_vars

InitHttp == now = 0 /\ CBIdle /\ RetryIdle /\ HttpInit /\ RLIdle /\ RouteIdle /\ MemIdle /\ FileIdle /\ AdapterIdle /\ LLMIdle /\ AggIdle /\ SchemaIdle /\ ConfigIdle /\ ARLIdle
SpecHttp == InitHttp /\ [][NextHttp]_vars

InitRL == now = 0 /\ CBIdle /\ RetryIdle /\ HttpIdle /\ RLInit /\ RouteIdle /\ MemIdle /\ FileIdle /\ AdapterIdle /\ LLMIdle /\ AggIdle /\ SchemaIdle /\ ConfigIdle /\ ARLIdle
SpecRL == InitRL /\ [][NextRL]_vars

InitRoute == now = 0 /\ CBIdle /\ RetryIdle /\ HttpIdle /\ RLIdle /\ RouteInit /\ MemIdle /\ FileIdle /\ AdapterIdle /\ LLMIdle /\ AggIdle /\ SchemaIdle /\ ConfigIdle /\ ARLIdle
SpecRoute == InitRoute /\ [][NextRoute]_vars

InitMem == now = 0 /\ CBIdle /\ RetryIdle /\ HttpIdle /\ RLIdle /\ RouteIdle /\ MemInit /\ FileIdle /\ AdapterIdle /\ LLMIdle /\ AggIdle /\ SchemaIdle /\ ConfigIdle /\ ARLIdle
SpecMem == InitMem /\ [][NextMem]_vars

InitFile == now = 0 /\ CBIdle /\ RetryIdle /\ HttpIdle /\ RLIdle /\ RouteIdle /\ MemIdle /\ FileInit /\ AdapterIdle /\ LLMIdle /\ AggIdle /\ SchemaIdle /\ ConfigIdle /\ ARLIdle
SpecFile == InitFile /\ [][NextFile]_vars

InitAdapter == now = 0 /\ CBIdle /\ RetryIdle /\ HttpIdle /\ RLIdle /\ RouteIdle /\ MemIdle /\ FileIdle /\ AdapterInit /\ LLMIdle /\ AggIdle /\ SchemaIdle /\ ConfigIdle /\ ARLIdle
SpecAdapter == InitAdapter /\ [][NextAdapter]_vars

InitLLM == now = 0 /\ CBIdle /\ RetryIdle /\ HttpIdle /\ RLIdle /\ RouteIdle /\ MemIdle /\ FileIdle /\ AdapterIdle /\ LLMInit /\ AggIdle /\ SchemaIdle /\ ConfigIdle /\ ARLIdle
SpecLLM == InitLLM /\ [][NextLLM]_vars

InitAgg == now = 0 /\ CBIdle /\ RetryIdle /\ HttpIdle /\ RLIdle /\ RouteIdle /\ MemIdle /\ FileIdle /\ AdapterIdle /\ LLMIdle /\ AggIdle /\ SchemaIdle /\ ConfigIdle /\ ARLIdle
SpecAgg == InitAgg /\ [][NextAgg]_vars

InitSchema == now = 0 /\ CBIdle /\ RetryIdle /\ HttpIdle /\ RLIdle /\ RouteIdle /\ MemIdle /\ FileIdle /\ AdapterIdle /\ LLMIdle /\ AggIdle /\ SchemaIdle /\ ConfigIdle /\ ARLIdle
SpecSchema == InitSchema /\ [][NextSchema]_vars

InitConfig == now = 0 /\ CBIdle /\ RetryIdle /\ HttpIdle /\ RLIdle /\ RouteIdle /\ MemIdle /\ FileIdle /\ AdapterIdle /\ LLMIdle /\ AggIdle /\ SchemaIdle /\ ConfigIdle /\ ARLIdle
SpecConfig == InitConfig /\ [][NextConfig]_vars

SpecAdapterStats == InitAdapter /\ [][NextAdapterStats]_vars

SpecRLAlone == InitRL /\ [][NextRLAlone]_vars /\ FairRLAlone

InitARL == now = 0 /\ CBIdle /\ RetryIdle /\ HttpIdle /\ RLIdle /\ RouteIdle /\ MemIdle /\ FileIdle /\ AdapterIdle /\ LLMIdle /\ AggIdle /\ SchemaIdle /\ ConfigIdle /\ ARLInit
SpecARL == InitARL /\ [][NextARL]_vars

====
